---- MODULE Spec2Model ----
(***************************************************************************)
(* Lease balance and payment ledger of the real-estate tracker backend.    *)
(*                                                                         *)
(* The state is the content of the SQLite tables users, rental_properties, *)
(* leases and payments, the wall clock read by `new Date()`, and the HTTP  *)
(* requests in flight.  A request handler is an async function: it runs    *)
(* from one `await` of a database statement to the next without            *)
(* interruption, and other requests run in between.  Every awaited        *)
(* statement, the getUserById of the requireRole middleware included, is a *)
(* step of its own, together with the synchronous code that follows it.    *)
(***************************************************************************)
EXTENDS Integers, Sequences, FiniteSets, TLC

VARIABLES
    users,              \* table users: id -> role
    rental_properties,  \* table rental_properties, in rowid order
    leases,             \* table leases, in rowid order
    payments,           \* table payments, in rowid order
    clock,              \* the reading `new Date()` gives now (milliseconds)
    reqs,               \* the requests in flight, one per connection
    initialBalance,     \* history: lease id -> currentBalance given to createLease
    torn,               \* history: leases on which one write of a pair was rejected
    renterPortal,       \* the React state of the RenterPortal component in one browser
    landlordPortal      \* the React state of the LandlordPortal component in one browser

vars == <<users, rental_properties, leases, payments, clock, reqs, initialBalance, torn,
          renterPortal, landlordPortal>>

----------------------------------------------------------------------------
(* Bounds of the model *)

MaxReqs == 2              \* connections with a request in flight
MaxClock == 1             \* the clock readings are 0..MaxClock
MaxTorn == 1              \* pairs of writes of which the storage rejects the second
MaxPayments == 2          \* rows of payments, counting the INSERTs in flight (Spec, SpecLeases)
MaxLeases == 2            \* rows of leases, counting the INSERTs in flight (SpecLeases)
MaxScenarioPayments == 3  \* rows of payments (SpecScenario)
MaxPortalPayments == 4    \* rows of payments, counting the INSERTs in flight (SpecRenter, SpecLandlord)
MaxViewLeases == 3        \* rows of leases (SpecViews)
MaxViewPayments == 2      \* rows of payments (SpecViews)
MaxViewClock == 2         \* the clock readings of SpecViews are 1..MaxViewClock
MaxCommandPayments == 1   \* rows of payments, counting the INSERTs in flight (SpecCommands)
MaxBootClock == 2         \* the clock readings of SpecBootstrap are 0..MaxBootClock
MaxPortalClock == 2       \* the clock readings of SpecRenter and SpecLandlord are 1..MaxPortalClock

----------------------------------------------------------------------------
(* Identities: users.id is a uuid; the demo accounts are told by e-mail *)

DemoLandlord == "landlord@demo.com"
DemoRenter == "renter@demo.com"
OtherLandlord == "landlord-2"
OtherRenter == "renter-2"
Stranger == "no-such-user"

Subjects == {DemoLandlord, DemoRenter, OtherLandlord, OtherRenter, Stranger}

DemoRent == 1200

----------------------------------------------------------------------------
(* JavaScript values and Number() *)

\* a JavaScript number: a finite integer, a finite number with a fraction
\* (n + 0.5), NaN, or +/-Infinity
Fin(n) == [t |-> "fin", v |-> n]
Frac(n) == [t |-> "frac", v |-> n]
NaN == [t |-> "nan", v |-> 0]
Infinity == [t |-> "inf", v |-> 1]
NegInfinity == [t |-> "inf", v |-> -1]

\* a JSON body field before coercion
JsNum(n) == [k |-> "number", n |-> n]       \* 1200
JsStr(n) == [k |-> "numstr", n |-> n]       \* "1200"
JsText == [k |-> "text", n |-> 0]           \* "abc"
JsEmpty == [k |-> "empty", n |-> 0]         \* ""
JsNull == [k |-> "null", n |-> 0]           \* null
JsUndefined == [k |-> "undefined", n |-> 0] \* field absent
JsHuge == [k |-> "huge", n |-> 1]           \* 1e999, parsed as Infinity
JsNegHuge == [k |-> "huge", n |-> -1]       \* -1e999
JsTrue == [k |-> "true", n |-> 1]           \* true
JsFrac(n) == [k |-> "fraction", n |-> n]    \* 1.5

Number(raw) ==
    CASE raw.k = "number" -> Fin(raw.n)
      [] raw.k = "numstr" -> Fin(raw.n)
      [] raw.k = "text" -> NaN
      [] raw.k = "empty" -> Fin(0)
      [] raw.k = "null" -> Fin(0)
      [] raw.k = "undefined" -> NaN
      [] raw.k = "huge" -> (IF raw.n > 0 THEN Infinity ELSE NegInfinity)
      [] raw.k = "true" -> Fin(1)
      [] raw.k = "fraction" -> Frac(raw.n)

NumberIsFinite(x) == x.t \in {"fin", "frac"}

\* JSON.stringify of a number, as the body field the server parses: null for
\* NaN and the infinities
JsonOf(x) ==
    CASE x.t = "frac" -> JsFrac(x.v)
      [] x.t = "fin" -> JsNum(x.v)
      [] OTHER -> JsNull

NumberIsInteger(x) == x.t = "fin"

\* finite numbers are added and compared on their count of halves
Halves(x) == IF x.t = "frac" THEN 2 * x.v + 1 ELSE 2 * x.v
OfHalves(h) == IF h % 2 = 0 THEN Fin(h \div 2) ELSE Frac((h - 1) \div 2)

Zero == Fin(0)

\* -x
Neg(x) ==
    CASE x.t = "nan" -> NaN
      [] x.t = "inf" -> (IF x.v > 0 THEN NegInfinity ELSE Infinity)
      [] OTHER -> OfHalves(0 - Halves(x))

\* x + y: NaN when an operand is NaN or the operands are opposite infinities
Plus(x, y) ==
    CASE x.t = "nan" \/ y.t = "nan" -> NaN
      [] x.t = "inf" /\ y.t = "inf" -> (IF x = y THEN x ELSE NaN)
      [] x.t = "inf" -> x
      [] y.t = "inf" -> y
      [] OTHER -> OfHalves(Halves(x) + Halves(y))

\* x - y
Minus(x, y) == Plus(x, Neg(y))

\* x < y: false when an operand is NaN
Less(x, y) ==
    CASE x.t = "nan" \/ y.t = "nan" -> FALSE
      [] x.t = "inf" -> x.v < 0 /\ y # x
      [] y.t = "inf" -> y.v > 0
      [] OTHER -> Halves(x) < Halves(y)

\* x <= y: false when an operand is NaN
LessEq(x, y) == x.t # "nan" /\ y.t # "nan" /\ (x = y \/ Less(x, y))

----------------------------------------------------------------------------
(* Database statements, as functions of the tables *)

RECURSIVE SeqSum(_)
SeqSum(q) == IF q = <<>> THEN Zero ELSE Plus(Head(q), SeqSum(Tail(q)))

\* SELECT * FROM users WHERE id = ? LIMIT 1 (the role column of the row)
getUserById(id) == IF id \in DOMAIN users THEN <<[id |-> id, role |-> users[id]]>> ELSE <<>>

\* the middleware of a route: the stored user exists and has the needed role
requireRole(neededRole, sub) ==
    LET user == getUserById(sub)
    IN  user # <<>> /\ user[1].role = neededRole

\* SELECT * FROM rental_properties WHERE id = ? LIMIT 1
getRentalPropertyById(id) == SelectSeq(rental_properties, LAMBDA p : p.id = id)

\* SELECT * FROM leases WHERE id = ? LIMIT 1
getLeaseById(id) == SelectSeq(leases, LAMBDA l : l.id = id)

\* INSERT INTO leases (...) VALUES (..., 1, now): the next rowid, is_active = 1
InsertLease(table, propertyId, renterId, monthlyRent, dueDay, currentBalance, now) ==
    Append(table, [id |-> Len(table) + 1,
                   property_id |-> propertyId,
                   renter_id |-> renterId,
                   monthly_rent |-> monthlyRent,
                   due_day |-> dueDay,
                   current_balance |-> currentBalance,
                   is_active |-> 1,
                   created_at |-> now])

\* SELECT * FROM leases WHERE property_id = ? ORDER BY id DESC LIMIT 1
LastLeaseForProperty(propertyId) ==
    LET rows == SelectSeq(leases, LAMBDA l : l.property_id = propertyId)
    IN  IF rows = <<>> THEN <<>> ELSE <<rows[Len(rows)]>>

\* variant of InsertPayment: a row equal in lease, amount and type is not inserted again
InsertPaymentOnce(table, leaseId, amount, now, type) ==
    IF \E i \in DOMAIN table : /\ table[i].lease_id = leaseId
                                /\ table[i].amount = amount
                                /\ table[i].type = type
    THEN table
    ELSE Append(table, [id |-> Len(table) + 1, lease_id |-> leaseId, amount |-> amount,
                        paid_at |-> now, type |-> type])

\* variant of InsertPayment: the row takes the place of the last row
InsertPaymentReplacing(table, leaseId, amount, now, type) ==
    LET row == [id |-> Len(table) + 1, lease_id |-> leaseId, amount |-> amount,
                paid_at |-> now, type |-> type]
    IN  IF table = <<>> THEN <<row>> ELSE [table EXCEPT ![Len(table)] = row]

\* INSERT INTO payments (lease_id, amount, paid_at, type) VALUES (?, ?, ?, ?)
InsertPayment(table, leaseId, amount, now, type) ==
    Append(table, [id |-> Len(table) + 1,
                   lease_id |-> leaseId,
                   amount |-> amount,
                   paid_at |-> now,
                   type |-> type])

\* variant of SubtractFromBalance: the UPDATE has no WHERE clause
SubtractFromEveryBalance(table, leaseId, amount) ==
    [i \in DOMAIN table |-> [table[i] EXCEPT !.current_balance = Minus(@, amount)]]

\* UPDATE leases SET current_balance = current_balance - ? WHERE id = ?
SubtractFromBalance(table, leaseId, amount) ==
    [i \in DOMAIN table |->
        IF table[i].id = leaseId
        THEN [table[i] EXCEPT !.current_balance = Minus(@, amount)]
        ELSE table[i]]

\* variant of AddToBalance: the value sent becomes the balance
SetBalance(table, leaseId, delta) ==
    [i \in DOMAIN table |->
        IF table[i].id = leaseId
        THEN [table[i] EXCEPT !.current_balance = delta]
        ELSE table[i]]

\* UPDATE leases SET current_balance = current_balance + ? WHERE id = ?
AddToBalance(table, leaseId, delta) ==
    [i \in DOMAIN table |->
        IF table[i].id = leaseId
        THEN [table[i] EXCEPT !.current_balance = Plus(@, delta)]
        ELSE table[i]]

\* the rows of payments with lease_id = ?, in rowid order
PaymentsOfLease(table, leaseId) == SelectSeq(table, LAMBDA p : p.lease_id = leaseId)

\* SELECT * FROM payments WHERE lease_id = ? ORDER BY id DESC LIMIT 1
LastPaymentForLease(table, leaseId) ==
    LET rows == PaymentsOfLease(table, leaseId)
    IN  IF rows = <<>> THEN <<>> ELSE <<rows[Len(rows)]>>

\* variant of FirstByPaidAtDesc: the earliest paid_at comes first
FirstByPaidAtAsc(rows) ==
    CHOOSE i \in DOMAIN rows :
        \A j \in DOMAIN rows :
            \/ rows[i].paid_at < rows[j].paid_at
            \/ rows[i].paid_at = rows[j].paid_at /\ i <= j

\* the row ORDER BY paid_at DESC puts first: the latest paid_at, and among equal
\* paid_at the lowest rowid (the sorter keeps the scan order of equal keys)
FirstByPaidAtDesc(rows) ==
    CHOOSE i \in DOMAIN rows :
        \A j \in DOMAIN rows :
            \/ rows[i].paid_at > rows[j].paid_at
            \/ rows[i].paid_at = rows[j].paid_at /\ i <= j

RemoveAt(q, i) == SubSeq(q, 1, i - 1) \o SubSeq(q, i + 1, Len(q))

RECURSIVE OrderByPaidAtDesc(_)
OrderByPaidAtDesc(rows) ==
    IF rows = <<>> THEN <<>>
    ELSE LET i == FirstByPaidAtDesc(rows)
         IN  <<rows[i]>> \o OrderByPaidAtDesc(RemoveAt(rows, i))

\* SELECT * FROM payments WHERE lease_id = ? ORDER BY paid_at DESC
listPaymentsForLease(table, leaseId) == OrderByPaidAtDesc(PaymentsOfLease(table, leaseId))

\* the row ORDER BY created_at DESC puts first: the latest created_at, and among
\* equal created_at the lowest rowid
FirstByCreatedAtDesc(rows) ==
    CHOOSE i \in DOMAIN rows :
        \A j \in DOMAIN rows :
            \/ rows[i].created_at > rows[j].created_at
            \/ rows[i].created_at = rows[j].created_at /\ i <= j

RECURSIVE OrderByCreatedAtDesc(_)
OrderByCreatedAtDesc(rows) ==
    IF rows = <<>> THEN <<>>
    ELSE LET i == FirstByCreatedAtDesc(rows)
         IN  <<rows[i]>> \o OrderByCreatedAtDesc(RemoveAt(rows, i))

\* SELECT l.* FROM leases l JOIN rental_properties rp ON rp.id = l.property_id
\* WHERE l.renter_id = ? ORDER BY l.created_at DESC
listLeasesForRenter(renterId) ==
    OrderByCreatedAtDesc(SelectSeq(leases, LAMBDA l :
        l.renter_id = renterId /\ getRentalPropertyById(l.property_id) # <<>>))

\* SELECT l.* FROM leases l JOIN rental_properties rp ON rp.id = l.property_id
\* WHERE rp.landlord_id = ? ORDER BY l.created_at DESC
listLeasesForLandlord(landlordId) ==
    OrderByCreatedAtDesc(SelectSeq(leases, LAMBDA l :
        \E i \in DOMAIN rental_properties :
            /\ rental_properties[i].id = l.property_id
            /\ rental_properties[i].landlord_id = landlordId))

\* SELECT * FROM rental_properties WHERE landlord_id = ? ORDER BY created_at DESC
listRentalPropertiesForLandlord(landlordId) ==
    OrderByCreatedAtDesc(SelectSeq(rental_properties, LAMBDA p : p.landlord_id = landlordId))

\* SELECT l.* FROM leases l WHERE l.property_id = ? AND l.is_active = 1
\* ORDER BY l.id DESC LIMIT 1
getActiveLeaseForProperty(propertyId) ==
    LET rows == SelectSeq(leases, LAMBDA l : l.property_id = propertyId /\ l.is_active = 1)
    IN  IF rows = <<>> THEN <<>> ELSE <<rows[Len(rows)]>>

----------------------------------------------------------------------------
(* Route validation *)

\* variant of PaymentAmountOk: the amount is only checked to be finite
PaymentAmountFinite(value) == NumberIsFinite(value)

\* POST /rentals/payments: the amount is finite and positive
PaymentAmountOk(value) == NumberIsFinite(value) /\ Less(Zero, value)

\* PATCH /rentals/leases/:leaseId/balance: the delta is finite
BalanceDeltaOk(value) == NumberIsFinite(value)

\* POST /rentals/leases: the rent is finite and positive
MonthlyRentOk(value) == NumberIsFinite(value) /\ Less(Zero, value)

\* POST /rentals/leases: the due day is an integer in 1..31
DueDayOk(value) == NumberIsInteger(value) /\ value.v >= 1 /\ value.v <= 31

\* POST /rentals/leases: currentBalance, 0 when it is not a finite number
InitialBalanceOf(raw) == IF NumberIsFinite(Number(raw)) THEN Number(raw) ELSE Zero

\* variant of EntryType: the two types are swapped
EntryTypeSwapped(value) == IF Less(Zero, value) THEN "credit" ELSE "charge"

\* the type of the ledger entry that logs an adjustment
EntryType(value) == IF Less(Zero, value) THEN "charge" ELSE "credit"

----------------------------------------------------------------------------
(* The portals *)

\* RenterPortal: paidThisMonth, from the balance and the monthly rent of the lease
RenterPaidThisMonth(currentBalance, monthlyRent) ==
    IF monthlyRent # Zero THEN LessEq(currentBalance, monthlyRent)
    ELSE LessEq(currentBalance, Zero)

\* variant of LandlordPaidThisMonth: paid only when nothing is owed
LandlordPaidInFull(balance, monthlyRent) == LessEq(balance, Zero)

\* LandlordPortal: paidThisMonth on the card of a property with a lease
LandlordPaidThisMonth(balance, monthlyRent) == LessEq(balance, monthlyRent)

\* variant of RenterBalanceOverdue: overdue as soon as anything is owed
RenterOwesAnything(currentBalance, monthlyRent) == Less(Zero, currentBalance)

\* RenterPortal: balanceOverdue; the nudge "Balance overdue" is rendered when it is true
RenterBalanceOverdue(currentBalance, monthlyRent) ==
    IF monthlyRent # Zero THEN Less(monthlyRent, currentBalance)
    ELSE Less(Zero, currentBalance)

\* Math.abs
Abs(n) == IF Less(n, Zero) THEN Minus(Zero, n) ELSE n

\* x || 0 of a number: NaN is falsy
OrZero(x) == IF x.t = "nan" THEN Zero ELSE x

\* the last three digits of a group
Digits3(n) ==
    IF n < 10 THEN "00" \o ToString(n) ELSE IF n < 100 THEN "0" \o ToString(n) ELSE ToString(n)

\* the digits of a natural number in groups of three
RECURSIVE Grouped(_)
Grouped(n) ==
    IF n < 1000 THEN ToString(n) ELSE Grouped(n \div 1000) \o "," \o Digits3(n % 1000)

\* Number.prototype.toLocaleString() in the en-US locale.  An infinite number
\* is printed as the sign U+221E, which a string of this module cannot hold:
\* it is written "U+221E" here (formatMoney is only given finite numbers:
\* amounts that passed Number.isFinite and numbers parsed from JSON).
toLocaleString(x) ==
    CASE x.t = "nan" -> "NaN"
      [] x.t = "inf" -> (IF x.v > 0 THEN "U+221E" ELSE "-U+221E")
      [] OTHER -> LET h == Halves(x)
                      m == IF h < 0 THEN 0 - h ELSE h
                  IN  (IF h < 0 THEN "-" ELSE "") \o Grouped(m \div 2)
                          \o (IF m % 2 = 1 THEN ".5" ELSE "")

\* RenterPortal, formatMoney: `$${(Number(value) || 0).toLocaleString()}`
formatMoney(value) == "$" \o toLocaleString(OrZero(value))

\* variant of formatLedgerAmount: the prefix follows the sign of the amount
formatLedgerAmountBySign(entry) ==
    (IF Less(Zero, entry.amount) THEN "+" ELSE "-") \o formatMoney(Abs(OrZero(entry.amount)))

\* formatLedgerAmount: the prefix and formatMoney of the absolute amount
formatLedgerAmount(entry) ==
    (IF entry.type = "charge" THEN "+" ELSE "-") \o formatMoney(Abs(OrZero(entry.amount)))

ledgerLabel(entry) ==
    IF entry.type = "charge" THEN "Rent issued"
    ELSE IF entry.type = "credit" THEN "Credited on"
    ELSE "Paid on"

\* a row of data.payments as an entry of paymentHistory
LedgerEntry(p, methodLabel) ==
    [id |-> p.id,
     date |-> p.paid_at,
     amount |-> p.amount,
     method |-> IF p.type = "charge" THEN "Due amount" ELSE methodLabel,
     note |-> IF p.type = "charge" \/ p.type = "credit" THEN "Posted by landlord" ELSE "Paid by you",
     type |-> IF p.type = "" THEN "payment" ELSE p.type]

\* what the ledger shows for an entry of paymentHistory: title, note and amount
LedgerLine(entry) ==
    [label |-> ledgerLabel(entry), note |-> entry.note, amount |-> formatLedgerAmount(entry)]

\* demoData: the profile the RenterPortal holds before a lease is loaded
demoRenterProfile ==
    [balance |-> Fin(1200), monthlyRent |-> Fin(1200), paidThisMonth |-> FALSE,
     paymentMethod |-> "Visa ending in 8044"]

\* demoData: the ledger the RenterPortal holds before a lease is loaded.  The ids
\* 'pay-3', 'pay-2', 'pay-1' are written -3, -2, -1, the dates 2025-08-28,
\* 2025-09-29, 2025-10-30 are written as the readings -3, -2, -1 of the clock,
\* which counts from the start of the server, and the entries have no type ("")
demoPaymentHistory ==
    <<[id |-> -3, date |-> -3, amount |-> Fin(1250), method |-> "Visa ending in 8044",
       note |-> "Paid by you", type |-> ""],
      [id |-> -2, date |-> -2, amount |-> Fin(1250), method |-> "Visa ending in 8044",
       note |-> "Paid by you", type |-> ""],
      [id |-> -1, date |-> -1, amount |-> Fin(1250), method |-> "Online payment",
       note |-> "Paid by you", type |-> ""]>>

\* useState(...) of RenterPortal in a browser where nobody is signed in.
\* signingIn: handleLogin awaits login.  effectDue: setIsAuthed(true) is queued and
\* the effect on [isAuthed, token, user] has not run since.  loads are the connections
\* of the getRenterLease calls whose promise is pending; pays are the payLease calls
\* that handleConfirmPayment awaits, each with its connection and the locals
\* methodLabel and value of that call
RenterPortalMounted(user) ==
    [user |-> user, isAuthed |-> FALSE, signingIn |-> FALSE, effectDue |-> FALSE,
     authError |-> "", lease |-> <<>>,
     paymentHistory |-> demoPaymentHistory, profile |-> demoRenterProfile, status |-> "",
     paymentErrors |-> <<>>, loading |-> FALSE, loads |-> {}, pays |-> {}]

\* useState(...) of LandlordPortal in a browser where nobody is signed in.
\* signingIn: handleLogin awaits login.  effectDue: setIsAuthed(true) is queued and
\* the effect on [isAuthed] has not run since.  loads are the pending Promise.all of
\* loadData: the connections of the two requests (0 once answered) and the
\* values they were answered with; saves are the connections of the
\* updateLeaseBalance calls that handleBalanceSave awaits
LandlordPortalMounted(user) ==
    [user |-> user, isAuthed |-> FALSE, signingIn |-> FALSE, effectDue |-> FALSE,
     properties |-> <<>>, leases |-> <<>>,
     error |-> "", loading |-> FALSE, loads |-> {}, saves |-> {}]

\* RenterPortal: currentBalance and monthlyRent of the render, Number(...) || 0
RenterCurrentBalance == OrZero(renterPortal.profile.balance)
RenterMonthlyRent == OrZero(renterPortal.profile.monthlyRent)

\* LandlordPortal: the lease on the card of a unit,
\* prop.activeLease || leases.find((l) => l.property_id === prop.id)
CardLease(prop, leasesList) ==
    IF prop.activeLease # <<>> THEN prop.activeLease
    ELSE LET found == SelectSeq(leasesList, LAMBDA l : l.property_id = prop.id)
         IN  IF found = <<>> THEN <<>> ELSE <<found[1]>>

\* LandlordPortal: the card of a unit
Card(prop, leasesList) ==
    LET lease == CardLease(prop, leasesList)
        balance == IF lease # <<>> THEN OrZero(lease[1].current_balance) ELSE Zero
        monthlyRent == IF lease # <<>> THEN OrZero(lease[1].monthly_rent) ELSE Zero
    IN  [lease |-> lease, balance |-> balance, monthlyRent |-> monthlyRent,
         paidThisMonth |-> IF lease # <<>> THEN LandlordPaidThisMonth(balance, monthlyRent)
                           ELSE FALSE]

\* LandlordPortal: the cards on the page
Cards == [k \in DOMAIN landlordPortal.properties |->
             Card(landlordPortal.properties[k], landlordPortal.leases)]

\* LandlordPortal: the totals above the cards
stats ==
    [total |-> Len(landlordPortal.properties),
     occupied |-> Cardinality({k \in DOMAIN landlordPortal.properties :
                                  landlordPortal.properties[k].activeLease # <<>>}),
     paid |-> Cardinality({k \in DOMAIN landlordPortal.properties :
                              LET lease == landlordPortal.properties[k].activeLease
                              IN  IF lease # <<>> THEN LessEq(lease[1].current_balance, Zero)
                                  ELSE FALSE})]

----------------------------------------------------------------------------
(* Requests in flight *)

Conns == 1..MaxReqs

\* a connection: the handler it runs and where that handler stands, its locals,
\* the number of payments rows it has inserted and the id of the last of them,
\* the balance its UPDATE found, and the response it has built
Idle == [op |-> "none", pc |-> "idle", leaseId |-> 0, value |-> Zero, now |-> 0, wrote |-> 0,
         inserted |-> 0, before |-> Zero,
         status |-> 0, error |-> "", args |-> <<>>, payment |-> <<>>, lease |-> <<>>, payments |-> <<>>,
         properties |-> <<>>, leases |-> <<>>]

\* what a handler has decided before it writes: the status and the error of
\* its response, or status 0 when it goes on to write
Reject(status, error) == [status |-> status, error |-> error]
Accept == Reject(0, "")

\* the handler has sent an error: res.status(status).json({ error })
Responding(op, leaseId, status, error) ==
    [Idle EXCEPT !.op = op, !.pc = "respond", !.leaseId = leaseId,
                 !.status = status, !.error = error]

\* a new request is served on the first connection that is free
FreeConn(c) == reqs[c].pc = "idle" /\ \A d \in Conns : d < c => reqs[d].pc # "idle"

\* the requests that may still INSERT INTO payments
PendingInserts ==
    {c \in Conns : \/ reqs[c].op = "pay" /\ reqs[c].pc \in {"getUser", "findLease", "insert"}
                   \/ reqs[c].op = "adjust"
                          /\ reqs[c].pc \in {"getUser", "findLease", "findProperty", "update",
                                             "selectLease", "insert"}}

\* the requests that may still INSERT INTO leases
PendingLeases ==
    {c \in Conns : reqs[c].op = "createLease"
                       /\ reqs[c].pc \in {"getUser", "findProperty", "insert"}}

----------------------------------------------------------------------------
(* The state after startup: the demo landlord, the demo renter, the demo    *)
(* unit and its lease with one month due are seeded; a second landlord with *)
(* a unit of their own and a second renter have accounts.                   *)

Init ==
    /\ users = (DemoLandlord :> "landlord") @@ (DemoRenter :> "renter")
               @@ (OtherLandlord :> "landlord") @@ (OtherRenter :> "renter")
    /\ rental_properties = <<[id |-> 1, landlord_id |-> DemoLandlord, title |-> "Demo Duplex", monthly_rent |-> Fin(DemoRent), created_at |-> 0],
                             [id |-> 2, landlord_id |-> OtherLandlord, title |-> "Unit", monthly_rent |-> Fin(DemoRent), created_at |-> 0]>>
    /\ leases = InsertLease(<<>>, 1, DemoRenter, Fin(DemoRent), Fin(1), Fin(DemoRent), 0)
    /\ payments = <<>>
    /\ clock = 0
    /\ reqs = [c \in Conns |-> Idle]
    /\ initialBalance = <<Fin(DemoRent)>>
    /\ torn = {}
    /\ renterPortal = RenterPortalMounted(DemoRenter)
    /\ landlordPortal = LandlordPortalMounted(DemoLandlord)

----------------------------------------------------------------------------
(* The clock.  Every `new Date()` is a reading of its own: of createLease, *)
(* of createRentalProperty, of recordPayment.  Time passes between any two  *)
(* steps, a reading and the INSERT that stores it included.                 *)

Tick ==
    /\ clock' = clock + 1
    /\ UNCHANGED <<renterPortal, landlordPortal, users, rental_properties, leases, payments, reqs, initialBalance, torn>>

----------------------------------------------------------------------------
(* POST /rentals/payments *)

\* variant of PayLeaseRejection: the lease is only checked to exist
PayLeaseRejectionAnyRenter(sub, leaseId) ==
    LET lease == getLeaseById(leaseId)
    IN  IF lease = <<>>
            THEN Reject(403, "You can only pay your own lease.")
        ELSE Accept

\* variant of PayRejection: the role of the account is not checked
PayRejectionAnyRole(sub, amount) ==
    IF ~PaymentAmountOk(Number(amount))
        THEN Reject(400, "Payment amount must be positive.")
    ELSE Accept

\* requireRole('renter') on the user row, then the check of the amount: what the
\* handler decides before it looks up the lease
PayRejection(sub, amount) ==
    IF ~requireRole("renter", sub)
        THEN Reject(403, "Only renters can do this action.")
    ELSE IF ~PaymentAmountOk(Number(amount))
        THEN Reject(400, "Payment amount must be positive.")
    ELSE Accept

\* the check of the lease row: what the handler decides before it writes
PayLeaseRejection(sub, leaseId) ==
    LET lease == getLeaseById(leaseId)
    IN  IF lease = <<>> \/ lease[1].renter_id # sub
            THEN Reject(403, "You can only pay your own lease.")
        ELSE Accept

\* the request as it arrives: the subject of its token and its body; requireRole
\* awaits getUserById
PayRequest(sub, leaseId, amount) ==
    [Idle EXCEPT !.op = "pay", !.pc = "getUser", !.leaseId = leaseId,
                 !.args = <<[sub |-> sub, amount |-> amount]>>]

PayStart(c, sub, leaseId, amount) ==
    /\ FreeConn(c)
    /\ reqs' = [reqs EXCEPT ![c] = PayRequest(sub, leaseId, amount)]
    /\ UNCHANGED <<renterPortal, landlordPortal, users, rental_properties, leases, payments, clock, initialBalance, torn>>

\* SELECT * FROM users: requireRole answers 403 or calls the handler, which
\* answers 400 or awaits getLeaseById
PayGetUser(c) ==
    /\ reqs[c].op = "pay" /\ reqs[c].pc = "getUser"
    /\ LET a == reqs[c].args[1]
           rejection == PayRejection(a.sub, a.amount)
       IN  reqs' = [reqs EXCEPT ![c] =
                IF rejection.status # 0
                THEN Responding("pay", reqs[c].leaseId, rejection.status, rejection.error)
                ELSE [reqs[c] EXCEPT !.pc = "findLease", !.value = Number(a.amount)]]
    /\ UNCHANGED <<renterPortal, landlordPortal, users, rental_properties, leases, payments, clock, initialBalance, torn>>

\* SELECT * FROM leases: the handler answers 403 or calls recordPayment, which
\* reads the clock and awaits its INSERT
PayFindLease(c) ==
    /\ reqs[c].op = "pay" /\ reqs[c].pc = "findLease"
    /\ LET rejection == PayLeaseRejection(reqs[c].args[1].sub, reqs[c].leaseId)
       IN  reqs' = [reqs EXCEPT ![c] =
                IF rejection.status # 0
                THEN Responding("pay", reqs[c].leaseId, rejection.status, rejection.error)
                ELSE [reqs[c] EXCEPT !.pc = "insert", !.now = clock, !.args = <<>>]]
    /\ UNCHANGED <<renterPortal, landlordPortal, users, rental_properties, leases, payments, clock, initialBalance, torn>>

\* recordPayment: INSERT INTO payments
PayInsert(c) ==
    /\ reqs[c].op = "pay" /\ reqs[c].pc = "insert"
    /\ payments' = InsertPayment(payments, reqs[c].leaseId, reqs[c].value, reqs[c].now, "payment")
    /\ reqs' = [reqs EXCEPT ![c].pc = "update", ![c].wrote = @ + 1,
                            ![c].inserted = Len(payments')]
    /\ UNCHANGED <<renterPortal, landlordPortal, users, rental_properties, leases, clock, initialBalance, torn>>

\* the INSERT is rejected by the storage: the handler's catch answers 500
PayInsertFails(c) ==
    /\ reqs[c].op = "pay" /\ reqs[c].pc = "insert"
    /\ reqs' = [reqs EXCEPT ![c] = Responding("pay", reqs[c].leaseId, 500, "Could not record payment.")]
    /\ UNCHANGED <<renterPortal, landlordPortal, users, rental_properties, leases, payments, clock, initialBalance, torn>>

\* variant of PayUpdate: a payment above the balance is refused once its entry
\* has been inserted
PayUpdateUnlessOverpaid(c) ==
    /\ reqs[c].op = "pay" /\ reqs[c].pc = "update"
    /\ IF Less(getLeaseById(reqs[c].leaseId)[1].current_balance, reqs[c].value)
       THEN /\ reqs' = [reqs EXCEPT ![c] = [Responding("pay", reqs[c].leaseId, 400,
                                                       "Payment exceeds the balance.")
                                                EXCEPT !.wrote = reqs[c].wrote]]
            /\ UNCHANGED leases
       ELSE /\ leases' = SubtractFromBalance(leases, reqs[c].leaseId, reqs[c].value)
            /\ reqs' = [reqs EXCEPT ![c].pc = "selectPayment"]
    /\ UNCHANGED <<renterPortal, landlordPortal, users, rental_properties, payments, clock, initialBalance, torn>>

\* variant of PayUpdate: the UPDATE stores a balance recomputed from the entries
\* of the lease
PayUpdateFromEntries(c) ==
    /\ reqs[c].op = "pay" /\ reqs[c].pc = "update"
    /\ leases' = [i \in DOMAIN leases |->
                    IF leases[i].id = reqs[c].leaseId
                    THEN LET rows == PaymentsOfLease(payments, leases[i].id)
                             effects == [j \in DOMAIN rows |->
                                            IF rows[j].type = "payment"
                                            THEN Minus(Zero, rows[j].amount)
                                            ELSE rows[j].amount]
                         IN  [leases[i] EXCEPT !.current_balance =
                                                   Plus(initialBalance[i], SeqSum(effects))]
                    ELSE leases[i]]
    /\ reqs' = [reqs EXCEPT ![c].pc = "selectPayment"]
    /\ UNCHANGED <<renterPortal, landlordPortal, users, rental_properties, payments, clock, initialBalance, torn>>

\* recordPayment: UPDATE leases SET current_balance = current_balance - ?
PayUpdate(c) ==
    /\ reqs[c].op = "pay" /\ reqs[c].pc = "update"
    /\ leases' = SubtractFromBalance(leases, reqs[c].leaseId, reqs[c].value)
    /\ reqs' = [reqs EXCEPT ![c].pc = "selectPayment"]
    /\ UNCHANGED <<renterPortal, landlordPortal, users, rental_properties, payments, clock, initialBalance, torn>>

\* the UPDATE is rejected by the storage after the INSERT was done
PayUpdateFails(c) ==
    /\ reqs[c].op = "pay" /\ reqs[c].pc = "update"
    /\ torn' = torn \cup {reqs[c].leaseId}
    /\ reqs' = [reqs EXCEPT ![c] = [Responding("pay", reqs[c].leaseId, 500,
                                               "Could not record payment.")
                                        EXCEPT !.wrote = reqs[c].wrote]]
    /\ UNCHANGED <<renterPortal, landlordPortal, users, rental_properties, leases, payments, clock, initialBalance>>

\* recordPayment: return the last payments row of the lease
PaySelectPayment(c) ==
    /\ reqs[c].op = "pay" /\ reqs[c].pc = "selectPayment"
    /\ reqs' = [reqs EXCEPT ![c].pc = "getLease",
                            ![c].payment = LastPaymentForLease(payments, reqs[c].leaseId)]
    /\ UNCHANGED <<renterPortal, landlordPortal, users, rental_properties, leases, payments, clock, initialBalance, torn>>

\* updatedLease = getLeaseById(leaseId)
PayGetLease(c) ==
    /\ reqs[c].op = "pay" /\ reqs[c].pc = "getLease"
    /\ reqs' = [reqs EXCEPT ![c].pc = "listPayments",
                            ![c].lease = getLeaseById(reqs[c].leaseId)]
    /\ UNCHANGED <<renterPortal, landlordPortal, users, rental_properties, leases, payments, clock, initialBalance, torn>>

\* payments = listPaymentsForLease(leaseId); res.status(201)
PayListPayments(c) ==
    /\ reqs[c].op = "pay" /\ reqs[c].pc = "listPayments"
    /\ reqs' = [reqs EXCEPT ![c].pc = "respond", ![c].status = 201,
                            ![c].payments = listPaymentsForLease(payments, reqs[c].leaseId)]
    /\ UNCHANGED <<renterPortal, landlordPortal, users, rental_properties, leases, payments, clock, initialBalance, torn>>

----------------------------------------------------------------------------
(* PATCH /rentals/leases/:leaseId/balance *)

\* variant of AdjustPropertyRejection: the owner of the property is not checked
AdjustPropertyRejectionAnyLandlord(sub, propertyId) ==
    LET property == getRentalPropertyById(propertyId)
    IN  IF property = <<>>
            THEN Reject(403, "You can only update your own leases.")
        ELSE Accept

\* variant of AdjustRejection: the amount is not checked
AdjustRejectionAnyAmount(sub, balance) ==
    IF ~requireRole("landlord", sub)
        THEN Reject(403, "Only landlords can do this action.")
    ELSE Accept

\* requireRole('landlord') on the user row, then the check of the amount: what
\* the handler decides before it looks up the lease
AdjustRejection(sub, balance) ==
    IF ~requireRole("landlord", sub)
        THEN Reject(403, "Only landlords can do this action.")
    ELSE IF ~BalanceDeltaOk(Number(balance))
        THEN Reject(400, "Balance must be a number.")
    ELSE Accept

\* the check of the lease row
AdjustLeaseRejection(leaseId) ==
    IF getLeaseById(leaseId) = <<>> THEN Reject(404, "Lease not found.") ELSE Accept

\* the check of the property row: what the handler decides before it writes
AdjustPropertyRejection(sub, propertyId) ==
    LET property == getRentalPropertyById(propertyId)
    IN  IF property = <<>> \/ property[1].landlord_id # sub
            THEN Reject(403, "You can only update your own leases.")
        ELSE Accept

\* the request as it arrives: the subject of its token, the leaseId of its path
\* and its body; requireRole awaits getUserById
AdjustRequest(sub, leaseId, balance) ==
    [Idle EXCEPT !.op = "adjust", !.pc = "getUser", !.leaseId = leaseId,
                 !.args = <<[sub |-> sub, balance |-> balance]>>]

AdjustStart(c, sub, leaseId, balance) ==
    /\ FreeConn(c)
    /\ reqs' = [reqs EXCEPT ![c] = AdjustRequest(sub, leaseId, balance)]
    /\ UNCHANGED <<renterPortal, landlordPortal, users, rental_properties, leases, payments, clock, initialBalance, torn>>

\* SELECT * FROM users: requireRole answers 403 or calls the handler, which
\* answers 400 or awaits getLeaseById
AdjustGetUser(c) ==
    /\ reqs[c].op = "adjust" /\ reqs[c].pc = "getUser"
    /\ LET a == reqs[c].args[1]
           rejection == AdjustRejection(a.sub, a.balance)
       IN  reqs' = [reqs EXCEPT ![c] =
                IF rejection.status # 0
                THEN Responding("adjust", reqs[c].leaseId, rejection.status, rejection.error)
                ELSE [reqs[c] EXCEPT !.pc = "findLease", !.value = Number(a.balance)]]
    /\ UNCHANGED <<renterPortal, landlordPortal, users, rental_properties, leases, payments, clock, initialBalance, torn>>

\* SELECT * FROM leases: the handler answers 404 or awaits getRentalPropertyById
\* of the property of the lease
AdjustFindLease(c) ==
    /\ reqs[c].op = "adjust" /\ reqs[c].pc = "findLease"
    /\ LET rejection == AdjustLeaseRejection(reqs[c].leaseId)
       IN  reqs' = [reqs EXCEPT ![c] =
                IF rejection.status # 0
                THEN Responding("adjust", reqs[c].leaseId, rejection.status, rejection.error)
                ELSE [reqs[c] EXCEPT !.pc = "findProperty",
                                     !.lease = getLeaseById(reqs[c].leaseId)]]
    /\ UNCHANGED <<renterPortal, landlordPortal, users, rental_properties, leases, payments, clock, initialBalance, torn>>

\* SELECT * FROM rental_properties: the handler answers 403 or awaits the UPDATE
\* of updateLeaseBalance
AdjustFindProperty(c) ==
    /\ reqs[c].op = "adjust" /\ reqs[c].pc = "findProperty"
    /\ LET rejection == AdjustPropertyRejection(reqs[c].args[1].sub,
                                                reqs[c].lease[1].property_id)
       IN  reqs' = [reqs EXCEPT ![c] =
                IF rejection.status # 0
                THEN Responding("adjust", reqs[c].leaseId, rejection.status, rejection.error)
                ELSE [reqs[c] EXCEPT !.pc = "update", !.args = <<>>, !.lease = <<>>]]
    /\ UNCHANGED <<renterPortal, landlordPortal, users, rental_properties, leases, payments, clock, initialBalance, torn>>

\* updateLeaseBalance: UPDATE leases SET current_balance = current_balance + ?
AdjustUpdate(c) ==
    /\ reqs[c].op = "adjust" /\ reqs[c].pc = "update"
    /\ leases' = AddToBalance(leases, reqs[c].leaseId, reqs[c].value)
    /\ reqs' = [reqs EXCEPT ![c].pc = "selectLease",
                            ![c].before = getLeaseById(reqs[c].leaseId)[1].current_balance]
    /\ UNCHANGED <<renterPortal, landlordPortal, users, rental_properties, payments, clock, initialBalance, torn>>

\* the UPDATE is rejected by the storage: nothing was written
AdjustUpdateFails(c) ==
    /\ reqs[c].op = "adjust" /\ reqs[c].pc = "update"
    /\ reqs' = [reqs EXCEPT ![c] = Responding("adjust", reqs[c].leaseId, 500, "Could not update lease balance.")]
    /\ UNCHANGED <<renterPortal, landlordPortal, users, rental_properties, leases, payments, clock, initialBalance, torn>>

\* updateLeaseBalance: return the lease row; recordPayment then reads the clock
AdjustSelectLease(c) ==
    /\ reqs[c].op = "adjust" /\ reqs[c].pc = "selectLease"
    /\ reqs' = [reqs EXCEPT ![c].pc = "insert", ![c].now = clock,
                            ![c].lease = getLeaseById(reqs[c].leaseId)]
    /\ UNCHANGED <<renterPortal, landlordPortal, users, rental_properties, leases, payments, clock, initialBalance, torn>>

\* recordPayment with type charge or credit: INSERT INTO payments
AdjustInsert(c) ==
    /\ reqs[c].op = "adjust" /\ reqs[c].pc = "insert"
    /\ payments' = InsertPayment(payments, reqs[c].leaseId, reqs[c].value, reqs[c].now,
                                 EntryType(reqs[c].value))
    /\ reqs' = [reqs EXCEPT ![c].pc = "selectPayment", ![c].wrote = @ + 1,
                            ![c].inserted = Len(payments')]
    /\ UNCHANGED <<renterPortal, landlordPortal, users, rental_properties, leases, clock, initialBalance, torn>>

\* recordPayment: return the last payments row of the lease; the handler drops
\* it and answers with the lease that updateLeaseBalance returned
AdjustSelectPayment(c) ==
    /\ reqs[c].op = "adjust" /\ reqs[c].pc = "selectPayment"
    /\ reqs' = [reqs EXCEPT ![c].pc = "respond", ![c].status = 200]
    /\ UNCHANGED <<renterPortal, landlordPortal, users, rental_properties, leases, payments, clock, initialBalance, torn>>

\* the INSERT is rejected by the storage after the UPDATE was done
AdjustInsertFails(c) ==
    /\ reqs[c].op = "adjust" /\ reqs[c].pc = "insert"
    /\ torn' = torn \cup {reqs[c].leaseId}
    /\ reqs' = [reqs EXCEPT ![c] = Responding("adjust", reqs[c].leaseId, 500, "Could not update lease balance.")]
    /\ UNCHANGED <<renterPortal, landlordPortal, users, rental_properties, leases, payments, clock, initialBalance>>

----------------------------------------------------------------------------
(* POST /rentals/leases *)

\* variant of CreateLeaseRejection: the due day is not checked
CreateLeaseRejectionAnyDay(sub, propertyId, renterId, monthlyRent, dueDay) ==
    IF ~requireRole("landlord", sub)
        THEN Reject(403, "Only landlords can do this action.")
    ELSE IF propertyId = 0 \/ renterId = ""
        THEN Reject(400, "Property and renter are required.")
    ELSE IF ~MonthlyRentOk(Number(monthlyRent))
        THEN Reject(400, "Monthly rent must be a positive number.")
    ELSE Accept

\* requireRole('landlord') on the user row, then the checks of the body: what
\* the handler decides before it looks up the property
CreateLeaseRejection(sub, propertyId, renterId, monthlyRent, dueDay) ==
    IF ~requireRole("landlord", sub)
        THEN Reject(403, "Only landlords can do this action.")
    ELSE IF propertyId = 0 \/ renterId = ""
        THEN Reject(400, "Property and renter are required.")
    ELSE IF ~MonthlyRentOk(Number(monthlyRent))
        THEN Reject(400, "Monthly rent must be a positive number.")
    ELSE IF ~DueDayOk(Number(dueDay))
        THEN Reject(400, "Due day should be a day of the month (1-31).")
    ELSE Accept

\* the check of the property row: what the handler decides before it writes
CreateLeasePropertyRejection(sub, propertyId) ==
    LET property == getRentalPropertyById(propertyId)
    IN  IF property = <<>> \/ property[1].landlord_id # sub
            THEN Reject(403, "You can only lease your own properties.")
        ELSE Accept

\* the request as it arrives: the subject of its token and its body; requireRole
\* awaits getUserById
CreateLeaseStart(c, sub, propertyId, renterId, monthlyRent, dueDay, currentBalance) ==
    /\ FreeConn(c)
    /\ reqs' = [reqs EXCEPT ![c] =
            [Idle EXCEPT !.op = "createLease", !.pc = "getUser",
                         !.args = <<[sub |-> sub,
                                     propertyId |-> propertyId,
                                     renterId |-> renterId,
                                     monthlyRent |-> monthlyRent,
                                     dueDay |-> dueDay,
                                     currentBalance |-> currentBalance]>>]]
    /\ UNCHANGED <<renterPortal, landlordPortal, users, rental_properties, leases, payments, clock, initialBalance, torn>>

\* SELECT * FROM users: requireRole answers 403 or calls the handler, which
\* answers 400 or awaits getRentalPropertyById
CreateLeaseGetUser(c) ==
    /\ reqs[c].op = "createLease" /\ reqs[c].pc = "getUser"
    /\ LET a == reqs[c].args[1]
           rejection == CreateLeaseRejection(a.sub, a.propertyId, a.renterId, a.monthlyRent,
                                             a.dueDay)
       IN  reqs' = [reqs EXCEPT ![c] =
                IF rejection.status # 0
                THEN Responding("createLease", 0, rejection.status, rejection.error)
                ELSE [reqs[c] EXCEPT !.pc = "findProperty",
                                     !.args = <<[a EXCEPT !.monthlyRent = Number(a.monthlyRent),
                                                          !.dueDay = Number(a.dueDay)]>>]]
    /\ UNCHANGED <<renterPortal, landlordPortal, users, rental_properties, leases, payments, clock, initialBalance, torn>>

\* SELECT * FROM rental_properties: the handler answers 403 or calls createLease,
\* which reads the clock and awaits its INSERT
CreateLeaseFindProperty(c) ==
    /\ reqs[c].op = "createLease" /\ reqs[c].pc = "findProperty"
    /\ LET a == reqs[c].args[1]
           rejection == CreateLeasePropertyRejection(a.sub, a.propertyId)
       IN  reqs' = [reqs EXCEPT ![c] =
                IF rejection.status # 0
                THEN Responding("createLease", 0, rejection.status, rejection.error)
                ELSE [reqs[c] EXCEPT !.pc = "insert", !.now = clock,
                                     !.args = <<[a EXCEPT !.currentBalance =
                                                              InitialBalanceOf(a.currentBalance)]>>]]
    /\ UNCHANGED <<renterPortal, landlordPortal, users, rental_properties, leases, payments, clock, initialBalance, torn>>

\* createLease: INSERT INTO leases
CreateLeaseInsert(c) ==
    /\ reqs[c].op = "createLease" /\ reqs[c].pc = "insert"
    /\ LET a == reqs[c].args[1]
       IN  /\ leases' = InsertLease(leases, a.propertyId, a.renterId, a.monthlyRent,
                                    a.dueDay, a.currentBalance, reqs[c].now)
           /\ initialBalance' = Append(initialBalance, a.currentBalance)
    /\ reqs' = [reqs EXCEPT ![c].pc = "selectLease"]
    /\ UNCHANGED <<renterPortal, landlordPortal, users, rental_properties, payments, clock, torn>>

\* createLease: return the last lease row of the property; res.status(201)
CreateLeaseSelect(c) ==
    /\ reqs[c].op = "createLease" /\ reqs[c].pc = "selectLease"
    /\ reqs' = [reqs EXCEPT ![c].pc = "respond", ![c].status = 201,
                            ![c].lease = LastLeaseForProperty(reqs[c].args[1].propertyId)]
    /\ UNCHANGED <<renterPortal, landlordPortal, users, rental_properties, leases, payments, clock, initialBalance, torn>>

----------------------------------------------------------------------------
(* GET /rentals/my-lease *)

\* the request as it arrives; requireRole awaits getUserById
MyLeaseRequest(sub) ==
    [Idle EXCEPT !.op = "myLease", !.pc = "getUser", !.args = <<[sub |-> sub]>>]

MyLeaseStart(c, sub) ==
    /\ FreeConn(c)
    /\ reqs' = [reqs EXCEPT ![c] = MyLeaseRequest(sub)]
    /\ UNCHANGED <<renterPortal, landlordPortal, users, rental_properties, leases, payments, clock, initialBalance, torn>>

\* SELECT * FROM users: requireRole('renter') answers 403 or calls the handler,
\* which awaits listLeasesForRenter
MyLeaseGetUser(c) ==
    /\ reqs[c].op = "myLease" /\ reqs[c].pc = "getUser"
    /\ IF ~requireRole("renter", reqs[c].args[1].sub)
       THEN reqs' = [reqs EXCEPT ![c].pc = "respond", ![c].status = 403,
                                 ![c].error = "Only renters can do this action."]
       ELSE reqs' = [reqs EXCEPT ![c].pc = "listLeases"]
    /\ UNCHANGED <<renterPortal, landlordPortal, users, rental_properties, leases, payments, clock, initialBalance, torn>>

\* leases = listLeasesForRenter(sub); lease = leases[0] || null; 404 without one
MyLeaseListLeases(c) ==
    /\ reqs[c].op = "myLease" /\ reqs[c].pc = "listLeases"
    /\ LET rows == listLeasesForRenter(reqs[c].args[1].sub)
       IN  IF rows = <<>>
           THEN reqs' = [reqs EXCEPT ![c].pc = "respond", ![c].status = 404,
                                     ![c].error = "No lease found for this renter."]
           ELSE reqs' = [reqs EXCEPT ![c].pc = "listPayments", ![c].lease = <<rows[1]>>,
                                     ![c].leaseId = rows[1].id]
    /\ UNCHANGED <<renterPortal, landlordPortal, users, rental_properties, leases, payments, clock, initialBalance, torn>>

\* payments = listPaymentsForLease(lease.id); res.json({ lease, payments })
MyLeaseListPayments(c) ==
    /\ reqs[c].op = "myLease" /\ reqs[c].pc = "listPayments"
    /\ reqs' = [reqs EXCEPT ![c].pc = "respond", ![c].status = 200,
                            ![c].payments = listPaymentsForLease(payments, reqs[c].leaseId)]
    /\ UNCHANGED <<renterPortal, landlordPortal, users, rental_properties, leases, payments, clock, initialBalance, torn>>

----------------------------------------------------------------------------
(* GET /rentals/properties *)

\* the request as it arrives; requireRole awaits getUserById
PropertiesRequest(sub) ==
    [Idle EXCEPT !.op = "properties", !.pc = "getUser", !.args = <<[sub |-> sub, listed |-> <<>>, pending |-> {}]>>]

\* SELECT * FROM users: requireRole('landlord') answers 403 or calls the handler,
\* which awaits listRentalPropertiesForLandlord
PropertiesGetUser(c) ==
    /\ reqs[c].op = "properties" /\ reqs[c].pc = "getUser"
    /\ IF ~requireRole("landlord", reqs[c].args[1].sub)
       THEN reqs' = [reqs EXCEPT ![c].pc = "respond", ![c].status = 403,
                                 ![c].error = "Only landlords can do this action."]
       ELSE reqs' = [reqs EXCEPT ![c].pc = "listProperties"]
    /\ UNCHANGED <<renterPortal, landlordPortal, users, rental_properties, leases, payments, clock, initialBalance, torn>>

\* properties = listRentalPropertiesForLandlord(sub); properties.map(...) then
\* issues getActiveLeaseForProperty for every unit at once (pending: the units
\* whose statement has not completed); without a unit Promise.all has nothing
\* to await and the handler answers
PropertiesList(c) ==
    /\ reqs[c].op = "properties" /\ reqs[c].pc = "listProperties"
    /\ LET listed == listRentalPropertiesForLandlord(reqs[c].args[1].sub)
       IN  IF listed = <<>>
           THEN reqs' = [reqs EXCEPT ![c].pc = "respond", ![c].status = 200]
           ELSE reqs' = [reqs EXCEPT ![c].pc = "activeLease",
                                     ![c].args[1].listed = listed,
                                     ![c].args[1].pending = DOMAIN listed,
                                     ![c].properties =
                                         [k \in DOMAIN listed |->
                                             [id |-> listed[k].id,
                                              landlord_id |-> listed[k].landlord_id,
                                              activeLease |-> <<>>]]]
    /\ UNCHANGED <<renterPortal, landlordPortal, users, rental_properties, leases, payments, clock, initialBalance, torn>>

\* Promise.all(properties.map(...)): getActiveLeaseForProperty of unit k of the
\* list completes; the statements complete in any order, and the result keeps
\* the order of the list; after the last, res.json({ properties })
PropertiesActiveLease(c, k) ==
    /\ reqs[c].op = "properties" /\ reqs[c].pc = "activeLease"
    /\ k \in reqs[c].args[1].pending
    /\ LET listed == reqs[c].args[1].listed
           last == reqs[c].args[1].pending = {k}
       IN  reqs' = [reqs EXCEPT ![c].properties[k].activeLease =
                                    getActiveLeaseForProperty(listed[k].id),
                                ![c].args[1].pending = @ \ {k},
                                ![c].pc = IF last THEN "respond" ELSE "activeLease",
                                ![c].status = IF last THEN 200 ELSE 0]
    /\ UNCHANGED <<renterPortal, landlordPortal, users, rental_properties, leases, payments, clock, initialBalance, torn>>

----------------------------------------------------------------------------
(* GET /rentals/leases *)

\* the request as it arrives; requireRole awaits getUserById
LandlordLeasesRequest(sub) ==
    [Idle EXCEPT !.op = "landlordLeases", !.pc = "getUser", !.args = <<[sub |-> sub]>>]

\* SELECT * FROM users: requireRole('landlord') answers 403 or calls the handler,
\* which awaits listLeasesForLandlord
LandlordLeasesGetUser(c) ==
    /\ reqs[c].op = "landlordLeases" /\ reqs[c].pc = "getUser"
    /\ IF ~requireRole("landlord", reqs[c].args[1].sub)
       THEN reqs' = [reqs EXCEPT ![c].pc = "respond", ![c].status = 403,
                                 ![c].error = "Only landlords can do this action."]
       ELSE reqs' = [reqs EXCEPT ![c].pc = "listLeases"]
    /\ UNCHANGED <<renterPortal, landlordPortal, users, rental_properties, leases, payments, clock, initialBalance, torn>>

\* leases = listLeasesForLandlord(sub); res.json({ leases })
LandlordLeasesList(c) ==
    /\ reqs[c].op = "landlordLeases" /\ reqs[c].pc = "listLeases"
    /\ reqs' = [reqs EXCEPT ![c].pc = "respond", ![c].status = 200,
                            ![c].leases = listLeasesForLandlord(reqs[c].args[1].sub)]
    /\ UNCHANGED <<renterPortal, landlordPortal, users, rental_properties, leases, payments, clock, initialBalance, torn>>

----------------------------------------------------------------------------
(* The portals *)

\* the connections of the requests whose response a portal awaits
RenterAwaits == renterPortal.loads \cup {p.c : p \in renterPortal.pays}
LandlordAwaits ==
    (landlordPortal.saves \cup UNION {{l.c, l.d} : l \in landlordPortal.loads}) \ {0}

\* loginHandler answers 401 for an address without a row and for a password
\* bcrypt.compare rejects; the login helper throws Error(data.error)
LoginError == "Invalid email or password."

\* RenterPortal, handleLogin up to `await login(...)`: setAuthError('')
RenterHandleLogin ==
    /\ ~renterPortal.isAuthed /\ ~renterPortal.signingIn
    /\ renterPortal' = [renterPortal EXCEPT !.authError = "", !.signingIn = TRUE]
    /\ UNCHANGED <<landlordPortal, reqs, users, rental_properties, leases, payments, clock, initialBalance, torn>>

\* RenterPortal, handleLogin of an account once `await login(...)` has resolved:
\* setIsAuthed(true) is queued and the handler returns; nothing is sent
RenterSignedIn(user) ==
    /\ renterPortal.signingIn
    /\ renterPortal' = [renterPortal EXCEPT !.user = user, !.isAuthed = TRUE,
                                            !.signingIn = FALSE, !.effectDue = TRUE]
    /\ UNCHANGED <<landlordPortal, reqs, users, rental_properties, leases, payments, clock, initialBalance, torn>>

\* RenterPortal, the render after setIsAuthed(true) and the effect on
\* [isAuthed, token, user] that follows it: it returns unless isAuthed, else
\* setStatus(''), setAuthError(''), setLoading(true) and getRenterLease(token)
RenterLeaseEffect(c) ==
    /\ renterPortal.effectDue
    /\ FreeConn(c)
    /\ IF renterPortal.isAuthed
       THEN /\ reqs' = [reqs EXCEPT ![c] = MyLeaseRequest(renterPortal.user)]
            /\ renterPortal' = [renterPortal EXCEPT !.effectDue = FALSE, !.status = "",
                                                    !.authError = "", !.loading = TRUE,
                                                    !.loads = @ \cup {c}]
       ELSE /\ renterPortal' = [renterPortal EXCEPT !.effectDue = FALSE]
            /\ UNCHANGED reqs
    /\ UNCHANGED <<landlordPortal, users, rental_properties, leases, payments, clock, initialBalance, torn>>

\* RenterPortal, handleLogin once login has rejected: the catch sets authError
\* and the login form stays
RenterSignInRejected ==
    /\ renterPortal.signingIn
    /\ renterPortal' = [renterPortal EXCEPT !.authError = LoginError, !.signingIn = FALSE]
    /\ UNCHANGED <<landlordPortal, reqs, users, rental_properties, leases, payments, clock, initialBalance, torn>>

\* RenterPortal, handleLogout: the login form is rendered again; the state of
\* the component and its pending calls stay
RenterHandleLogout ==
    /\ renterPortal.isAuthed
    /\ renterPortal' = [renterPortal EXCEPT !.isAuthed = FALSE]
    /\ UNCHANGED <<landlordPortal, reqs, users, rental_properties, leases, payments, clock, initialBalance, torn>>

\* RenterPortal, getRenterLease(token).then / .catch / .finally
RenterPortalLoaded(c) ==
    /\ c \in renterPortal.loads
    /\ reqs[c].pc = "respond"
    /\ IF reqs[c].status = 200
       THEN LET lease == reqs[c].lease[1]
                balance == OrZero(lease.current_balance)
                monthly == OrZero(lease.monthly_rent)
            IN  renterPortal' =
                    [renterPortal EXCEPT
                        !.lease = reqs[c].lease,
                        !.paymentHistory = [i \in DOMAIN reqs[c].payments |->
                                               LedgerEntry(reqs[c].payments[i], "Online payment")],
                        !.profile = [@ EXCEPT
                                        !.balance = balance,
                                        !.monthlyRent = IF monthly # Zero THEN monthly
                                                        ELSE OrZero(@),
                                        !.paidThisMonth = IF monthly # Zero
                                                          THEN LessEq(balance, monthly)
                                                          ELSE LessEq(balance, Zero)],
                        !.loading = FALSE,
                        !.loads = @ \ {c}]
       ELSE renterPortal' = [renterPortal EXCEPT !.status = reqs[c].error, !.loading = FALSE,
                                                 !.loads = @ \ {c}]
    /\ reqs' = [reqs EXCEPT ![c] = Idle]
    /\ UNCHANGED <<landlordPortal, users, rental_properties, leases, payments, clock, initialBalance, torn>>

\* LandlordPortal, loadData: setLoading(true) and
\* Promise.all([getLandlordProperties(token), getLandlordLeases(token)]), the two
\* requests sent on connections c and d
loadData(portal, c, d) ==
    [portal EXCEPT !.loading = TRUE,
                   !.loads = @ \cup {[c |-> c, d |-> d, props |-> <<>>, leasesRes |-> <<>>]}]

\* LandlordPortal, handleLogin up to `await login(...)`: setError('')
LandlordHandleLogin ==
    /\ ~landlordPortal.isAuthed /\ ~landlordPortal.signingIn
    /\ landlordPortal' = [landlordPortal EXCEPT !.error = "", !.signingIn = TRUE]
    /\ UNCHANGED <<renterPortal, reqs, users, rental_properties, leases, payments, clock, initialBalance, torn>>

\* LandlordPortal, handleLogin of an account once login has resolved:
\* setIsAuthed(true) is queued and the handler returns; nothing is sent
LandlordSignedIn(user) ==
    /\ landlordPortal.signingIn
    /\ landlordPortal' = [landlordPortal EXCEPT !.user = user, !.isAuthed = TRUE,
                                                !.signingIn = FALSE, !.effectDue = TRUE]
    /\ UNCHANGED <<renterPortal, reqs, users, rental_properties, leases, payments, clock, initialBalance, torn>>

\* LandlordPortal, the render after setIsAuthed(true) and the effect on
\* [isAuthed] that follows it: if (isAuthed) loadData(), which sends its two
\* requests on the connections c and d
LandlordLoadEffect(c, d) ==
    /\ landlordPortal.effectDue
    /\ c # d /\ reqs[c].pc = "idle" /\ reqs[d].pc = "idle"
    /\ IF landlordPortal.isAuthed
       THEN /\ reqs' = [reqs EXCEPT ![c] = PropertiesRequest(landlordPortal.user),
                                    ![d] = LandlordLeasesRequest(landlordPortal.user)]
            /\ landlordPortal' = loadData([landlordPortal EXCEPT !.effectDue = FALSE], c, d)
       ELSE /\ landlordPortal' = [landlordPortal EXCEPT !.effectDue = FALSE]
            /\ UNCHANGED reqs
    /\ UNCHANGED <<renterPortal, users, rental_properties, leases, payments, clock, initialBalance, torn>>

\* LandlordPortal, handleLogin once login has rejected: the catch sets error and
\* the login form stays
LandlordSignInRejected ==
    /\ landlordPortal.signingIn
    /\ landlordPortal' = [landlordPortal EXCEPT !.error = LoginError, !.signingIn = FALSE]
    /\ UNCHANGED <<renterPortal, reqs, users, rental_properties, leases, payments, clock, initialBalance, torn>>

\* LandlordPortal, handleLogout: the login form is rendered again
LandlordHandleLogout ==
    /\ landlordPortal.isAuthed
    /\ landlordPortal' = [landlordPortal EXCEPT !.isAuthed = FALSE]
    /\ UNCHANGED <<renterPortal, reqs, users, rental_properties, leases, payments, clock, initialBalance, torn>>

\* LandlordPortal, loadData: one of the two requests of a Promise.all is answered.
\* The first error rejects the Promise.all: .catch sets error and .finally clears
\* loading while the other request is still in flight, and its answer is dropped.
\* The second of two values fulfils it: .then sets properties and leases
LandlordPortalLoaded(c) ==
    /\ reqs[c].pc = "respond"
    /\ \E l \in landlordPortal.loads :
        /\ c \in {l.c, l.d}
        /\ LET rest == landlordPortal.loads \ {l}
               got == IF c = l.c THEN [l EXCEPT !.c = 0, !.props = <<reqs[c].properties>>]
                      ELSE [l EXCEPT !.d = 0, !.leasesRes = <<reqs[c].leases>>]
           IN  landlordPortal' =
                   IF reqs[c].status # 200
                   THEN [landlordPortal EXCEPT !.error = reqs[c].error, !.loading = FALSE,
                                               !.loads = rest]
                   ELSE IF got.c = 0 /\ got.d = 0
                   THEN [landlordPortal EXCEPT !.properties = got.props[1],
                                               !.leases = got.leasesRes[1],
                                               !.loading = FALSE, !.loads = rest]
                   ELSE [landlordPortal EXCEPT !.loads = rest \cup {got}]
    /\ reqs' = [reqs EXCEPT ![c] = Idle]
    /\ UNCHANGED <<renterPortal, users, rental_properties, leases, payments, clock, initialBalance, torn>>

\* validatePayment of the card fields, of which the model has two fillings:
\* "valid" is the card 4242 4242 4242 4242 with expiry 12/30 and a cvv of three
\* digits, read before 2031; "empty" is the form with nothing typed
validatePayment(card) ==
    IF card = "valid" THEN <<>>
    ELSE <<"Card number should be 16 digits.", "Use MM/YY for expiry.",
           "CVV should be 3 or 4 numbers.">>

\* `Card ending in ${payment.cardNumber.slice(-4)} (exp ${payment.expiry})` of
\* the valid card
MaskedCard == "Card ending in 4242 (exp 12/30)"

\* RenterPortal, handlePaymentSave with the card fields filled as `card`: the form
\* is on the page of a renter who is signed in
handlePaymentSave(card) ==
    /\ renterPortal.isAuthed
    /\ renterPortal' =
            IF validatePayment(card) # <<>>
            THEN [renterPortal EXCEPT !.paymentErrors = validatePayment(card), !.status = ""]
            ELSE [renterPortal EXCEPT !.paymentErrors = <<>>,
                                      !.profile.paymentMethod = MaskedCard,
                                      !.status = "Payment method saved."]
    /\ UNCHANGED <<landlordPortal, reqs, users, rental_properties, leases, payments, clock, initialBalance, torn>>

\* RenterPortal, handleConfirmPayment up to `await payLease(token, lease.id, value)`:
\* payAmount is the text of the amount field; method is "saved", or "new" with
\* the valid card in the card fields, or "newInvalid" with the empty card fields.
\* The modal with the button is on the page of a renter who is signed in
handleConfirmPayment(c, payAmount, method) ==
    LET value == Number(payAmount)
        errors == validatePayment(IF method = "newInvalid" THEN "empty" ELSE "valid")
        methodLabel == IF method = "new" THEN MaskedCard
                       ELSE IF renterPortal.profile.paymentMethod # ""
                       THEN renterPortal.profile.paymentMethod
                       ELSE "Manual payment"
        \* the portal once the method has been settled
        settled == IF method = "new"
                   THEN [renterPortal EXCEPT !.profile.paymentMethod = MaskedCard,
                                             !.paymentErrors = <<>>]
                   ELSE renterPortal
    IN  /\ renterPortal.isAuthed
        /\ IF ~NumberIsFinite(value) \/ LessEq(value, Zero)
           THEN /\ renterPortal' = [renterPortal EXCEPT !.status = "Enter an amount to pay."]
                /\ UNCHANGED reqs
           ELSE IF method # "saved" /\ errors # <<>>
           THEN /\ renterPortal' = [renterPortal EXCEPT
                                       !.paymentErrors = errors,
                                       !.status = "Fix the card details before paying."]
                /\ UNCHANGED reqs
           ELSE IF renterPortal.lease = <<>>
           THEN /\ renterPortal' = [settled EXCEPT !.status = "No lease to pay yet."]
                /\ UNCHANGED reqs
           ELSE /\ FreeConn(c)
                /\ reqs' = [reqs EXCEPT ![c] =
                               PayRequest(renterPortal.user, renterPortal.lease[1].id,
                                          JsonOf(value))]
                /\ renterPortal' = [settled EXCEPT
                                       !.pays = @ \cup {[c |-> c, methodLabel |-> methodLabel,
                                                         value |-> value]}]
        /\ UNCHANGED <<landlordPortal, users, rental_properties, leases, payments, clock, initialBalance, torn>>

\* what handleConfirmPayment sets once payLease has been answered 201
AfterPayment(p, res) ==
    LET balance == OrZero(res.lease[1].current_balance)
        monthly == OrZero(res.lease[1].monthly_rent)
        balanceNote == IF Less(balance, Zero)
                       THEN "You now have a credit of " \o formatMoney(Abs(balance)) \o "."
                       ELSE "New balance: " \o formatMoney(balance) \o "."
    IN  [renterPortal EXCEPT
            !.lease = res.lease,
            !.paymentHistory = [i \in DOMAIN res.payments |->
                                   LedgerEntry(res.payments[i], p.methodLabel)],
            !.profile = [@ EXCEPT !.balance = balance,
                                  !.paidThisMonth = IF monthly # Zero
                                                    THEN LessEq(balance, monthly)
                                                    ELSE LessEq(balance, Zero)],
            !.status = "Payment of " \o formatMoney(p.value) \o " recorded. " \o balanceNote,
            !.pays = @ \ {p}]

\* variant of RenterPortalPaid: the catch clears the lease and the ledger
RenterPortalPaidOrCleared(c) ==
    /\ reqs[c].op = "pay" /\ reqs[c].pc = "respond"
    /\ \E p \in renterPortal.pays :
        /\ p.c = c
        /\ IF reqs[c].status = 201
           THEN renterPortal' = AfterPayment(p, reqs[c])
           ELSE renterPortal' = [renterPortal EXCEPT !.lease = <<>>, !.paymentHistory = <<>>,
                                                     !.status = reqs[c].error, !.pays = @ \ {p}]
    /\ reqs' = [reqs EXCEPT ![c] = Idle]
    /\ UNCHANGED <<landlordPortal, users, rental_properties, leases, payments, clock, initialBalance, torn>>

\* RenterPortal, handleConfirmPayment after the await: the response, or the catch
RenterPortalPaid(c) ==
    /\ reqs[c].op = "pay" /\ reqs[c].pc = "respond"
    /\ \E p \in renterPortal.pays :
        /\ p.c = c
        /\ IF reqs[c].status = 201
           THEN renterPortal' = AfterPayment(p, reqs[c])
           ELSE renterPortal' = [renterPortal EXCEPT !.status = reqs[c].error, !.pays = @ \ {p}]
    /\ reqs' = [reqs EXCEPT ![c] = Idle]
    /\ UNCHANGED <<landlordPortal, users, rental_properties, leases, payments, clock, initialBalance, torn>>

\* LandlordPortal, handleBalanceSave(lease.id, explicitValue) on the card of unit k up
\* to `await updateLeaseBalance(token, leaseId, value)`: raw is the explicit value
\* or the text of the balance field of the card.  The buttons are on the card of
\* a unit with a lease, on the page of a landlord who is signed in
handleBalanceSave(c, k, raw) ==
    LET value == Number(raw)
    IN  /\ landlordPortal.isAuthed
        /\ k \in DOMAIN landlordPortal.properties
        /\ Cards[k].lease # <<>>
        /\ IF ~NumberIsFinite(value)
           THEN /\ landlordPortal' = [landlordPortal EXCEPT !.error = "Balance must be a number."]
                /\ UNCHANGED reqs
           ELSE /\ FreeConn(c)
                /\ reqs' = [reqs EXCEPT ![c] =
                               AdjustRequest(landlordPortal.user, Cards[k].lease[1].id,
                                             JsonOf(value))]
                /\ landlordPortal' = [landlordPortal EXCEPT !.saves = @ \cup {c}]
        /\ UNCHANGED <<renterPortal, users, rental_properties, leases, payments, clock, initialBalance, torn>>

\* LandlordPortal, handleBalanceSave after the await: setError('') and refresh(),
\* which is loadData(); or the catch
LandlordPortalSaved(c) ==
    /\ reqs[c].op = "adjust" /\ reqs[c].pc = "respond"
    /\ c \in landlordPortal.saves
    /\ IF reqs[c].status = 200
       THEN \E d \in Conns \ {c} :
                /\ reqs[d].pc = "idle"
                /\ landlordPortal' = loadData([landlordPortal EXCEPT !.error = "",
                                                                     !.saves = @ \ {c}], c, d)
                /\ reqs' = [reqs EXCEPT ![c] = PropertiesRequest(landlordPortal.user),
                                        ![d] = LandlordLeasesRequest(landlordPortal.user)]
       ELSE /\ landlordPortal' = [landlordPortal EXCEPT !.error = reqs[c].error,
                                                        !.saves = @ \ {c}]
            /\ reqs' = [reqs EXCEPT ![c] = Idle]
    /\ UNCHANGED <<renterPortal, users, rental_properties, leases, payments, clock, initialBalance, torn>>

\* variant of AddMonthlyCharge: the button sends the rent of the demo lease
AddDemoRentCharge(c, k) ==
    /\ k \in DOMAIN landlordPortal.properties
    /\ handleBalanceSave(c, k, JsNum(DemoRent))

\* LandlordPortal, the button "Add monthly charge" on the card of unit k:
\* handleBalanceSave(lease.id, monthlyRent || 0)
AddMonthlyCharge(c, k) ==
    /\ k \in DOMAIN landlordPortal.properties
    /\ handleBalanceSave(c, k, JsonOf(Cards[k].monthlyRent))

----------------------------------------------------------------------------
(* POST /rentals/properties *)

\* INSERT INTO rental_properties (...) VALUES (..., now): the next rowid
InsertRentalProperty(table, landlordId, title, monthlyRent, now) ==
    Append(table, [id |-> Len(table) + 1, landlord_id |-> landlordId, title |-> title,
                   monthly_rent |-> monthlyRent, created_at |-> now])

\* SELECT * FROM rental_properties WHERE landlord_id = ? AND title = ? AND address = ?
\* ORDER BY id DESC LIMIT 1 (title and address are one text in the model)
LastPropertyByTitle(landlordId, title) ==
    LET rows == SelectSeq(rental_properties,
                          LAMBDA p : p.landlord_id = landlordId /\ p.title = title)
    IN  IF rows = <<>> THEN <<>> ELSE <<rows[Len(rows)]>>

\* Number.isFinite(Number(monthlyRent)) ? Number(monthlyRent) : 0
RentValue(monthlyRent) ==
    IF NumberIsFinite(Number(monthlyRent)) THEN Number(monthlyRent) ELSE Zero

\* the request as it arrives: the subject of its token and its body; requireRole
\* awaits getUserById
CreatePropertyStart(c, sub, title, monthlyRent) ==
    /\ FreeConn(c)
    /\ reqs' = [reqs EXCEPT ![c] =
            [Idle EXCEPT !.op = "createProperty", !.pc = "getUser",
                         !.args = <<[landlordId |-> sub, title |-> title,
                                     monthlyRent |-> monthlyRent]>>]]
    /\ UNCHANGED <<renterPortal, landlordPortal, users, rental_properties, leases, payments, clock, initialBalance, torn>>

\* SELECT * FROM users: requireRole('landlord') answers 403 or calls the handler,
\* which checks title and address and calls createRentalProperty; that reads
\* the clock and awaits its INSERT
CreatePropertyGetUser(c) ==
    /\ reqs[c].op = "createProperty" /\ reqs[c].pc = "getUser"
    /\ LET a == reqs[c].args[1]
       IN  IF ~requireRole("landlord", a.landlordId)
           THEN reqs' = [reqs EXCEPT ![c] = Responding("createProperty", 0, 403,
                                                       "Only landlords can do this action.")]
           ELSE IF a.title = ""
           THEN reqs' = [reqs EXCEPT ![c] = Responding("createProperty", 0, 400,
                                                       "Title and address are required.")]
           ELSE reqs' = [reqs EXCEPT ![c].pc = "insert", ![c].now = clock,
                                     ![c].args = <<[a EXCEPT !.monthlyRent =
                                                                 RentValue(a.monthlyRent)]>>]
    /\ UNCHANGED <<renterPortal, landlordPortal, users, rental_properties, leases, payments, clock, initialBalance, torn>>

\* createRentalProperty: INSERT INTO rental_properties
CreatePropertyInsert(c) ==
    /\ reqs[c].op = "createProperty" /\ reqs[c].pc = "insert"
    /\ LET a == reqs[c].args[1]
       IN  rental_properties' = InsertRentalProperty(rental_properties, a.landlordId, a.title,
                                                     a.monthlyRent, reqs[c].now)
    /\ reqs' = [reqs EXCEPT ![c].pc = "selectProperty"]
    /\ UNCHANGED <<renterPortal, landlordPortal, users, leases, payments, clock, initialBalance, torn>>

\* createRentalProperty: return the created row; res.status(201)
CreatePropertySelect(c) ==
    /\ reqs[c].op = "createProperty" /\ reqs[c].pc = "selectProperty"
    /\ LET a == reqs[c].args[1]
       IN  reqs' = [reqs EXCEPT ![c].pc = "respond", ![c].status = 201,
                                ![c].properties = LastPropertyByTitle(a.landlordId, a.title)]
    /\ UNCHANGED <<renterPortal, landlordPortal, users, rental_properties, leases, payments, clock, initialBalance, torn>>

----------------------------------------------------------------------------
(* ensureDemoRentalData *)

\* String(email).toLowerCase(), on the addresses of the model
toLowerCase(email) == IF email = "Renter@Demo.com" THEN "renter@demo.com" ELSE email

\* createUser gives the account a fresh uuid; the model names a row of users by
\* its e-mail address, which every writer stores in lower case.
\* SELECT * FROM users WHERE lower(email) = lower(?) LIMIT 1
getUserByEmail(email) == getUserById(toLowerCase(email))

\* email TEXT NOT NULL UNIQUE: the INSERT of a second row with the address fails
EmailTaken(table, email) == email \in DOMAIN table

\* INSERT INTO users, with user.role || 'renter'; createUser throws and nothing
\* is written when the address is taken
createUser(table, email, role) ==
    IF EmailTaken(table, email) THEN table
    ELSE (email :> (IF role = "" THEN "renter" ELSE role)) @@ table

\* the e-mail address of the demo account of a role
DemoEmail(role) == IF role = "landlord" THEN "landlord@demo.com" ELSE "renter@demo.com"

\* a run of ensureDemoRentalData first awaits ensureDemoUsers; that awaits
\* getUserByEmail of the landlord.  role is the account ensureDemoUsers or
\* ensureDemoRentalData is at, landlord and renter are the locals of the latter
ensureDemoRentalData(c) ==
    /\ FreeConn(c)
    /\ reqs' = [reqs EXCEPT ![c] =
            [Idle EXCEPT !.op = "ensureDemoRentalData", !.pc = "getUser",
                         !.args = <<[role |-> "landlord", landlord |-> <<>>, renter |-> <<>>]>>]]
    /\ UNCHANGED <<renterPortal, landlordPortal, users, rental_properties, leases, payments, clock, initialBalance, torn>>

\* where ensureDemoUsers goes on once the account of a role is there: to the
\* renter after the landlord, and back to ensureDemoRentalData after the renter
AfterUser(r) ==
    IF r.args[1].role = "landlord"
    THEN [r EXCEPT !.pc = "getUser", !.args[1].role = "renter"]
    ELSE [r EXCEPT !.pc = "readUser", !.args[1].role = "landlord"]

\* ensureDemoUsers: getUserByEmail of the account; without a row bcrypt.hash is awaited
EnsureUser(c) ==
    /\ reqs[c].op = "ensureDemoRentalData" /\ reqs[c].pc = "getUser"
    /\ reqs' = [reqs EXCEPT ![c] =
            IF getUserByEmail(DemoEmail(reqs[c].args[1].role)) = <<>>
            THEN [reqs[c] EXCEPT !.pc = "hash"]
            ELSE AfterUser(reqs[c])]
    /\ UNCHANGED <<renterPortal, landlordPortal, users, rental_properties, leases, payments, clock, initialBalance, torn>>

\* ensureDemoUsers: bcrypt.hash has resolved, and createUser awaits its INSERT
EnsureUserHash(c) ==
    /\ reqs[c].op = "ensureDemoRentalData" /\ reqs[c].pc = "hash"
    /\ reqs' = [reqs EXCEPT ![c].pc = "createUser"]
    /\ UNCHANGED <<renterPortal, landlordPortal, users, rental_properties, leases, payments, clock, initialBalance, torn>>

\* ensureDemoUsers: createUser of the account; when the INSERT fails the promise
\* of ensureDemoRentalData rejects and the run is over
EnsureUserCreate(c) ==
    /\ reqs[c].op = "ensureDemoRentalData" /\ reqs[c].pc = "createUser"
    /\ users' = createUser(users, DemoEmail(reqs[c].args[1].role), reqs[c].args[1].role)
    /\ reqs' = [reqs EXCEPT ![c] =
            IF EmailTaken(users, DemoEmail(reqs[c].args[1].role)) THEN Idle
            ELSE AfterUser(reqs[c])]
    /\ UNCHANGED <<renterPortal, landlordPortal, rental_properties, leases, payments, clock, initialBalance, torn>>

\* landlord = getUserByEmail(...), then renter = getUserByEmail(...); without
\* one of them ensureDemoRentalData returns, else it awaits
\* listRentalPropertiesForLandlord
EnsureReadUser(c) ==
    /\ reqs[c].op = "ensureDemoRentalData" /\ reqs[c].pc = "readUser"
    /\ LET a == reqs[c].args[1]
           user == getUserByEmail(DemoEmail(a.role))
       IN  reqs' = [reqs EXCEPT ![c] =
                IF a.role = "landlord"
                THEN [reqs[c] EXCEPT !.args = <<[a EXCEPT !.role = "renter", !.landlord = user]>>]
                ELSE IF a.landlord = <<>> \/ user = <<>>
                THEN Idle
                ELSE [reqs[c] EXCEPT !.pc = "listProperties",
                                     !.args = <<[a EXCEPT !.renter = user]>>]]
    /\ UNCHANGED <<renterPortal, landlordPortal, users, rental_properties, leases, payments, clock, initialBalance, torn>>

\* existingProps = listRentalPropertiesForLandlord(landlord.id); prop is
\* existingProps[0], or createRentalProperty reads the clock and awaits its INSERT
EnsureProperty(c) ==
    /\ reqs[c].op = "ensureDemoRentalData" /\ reqs[c].pc = "listProperties"
    /\ LET existingProps == listRentalPropertiesForLandlord(reqs[c].args[1].landlord[1].id)
       IN  IF existingProps # <<>>
           THEN reqs' = [reqs EXCEPT ![c].pc = "activeLease",
                                     ![c].properties = <<existingProps[1]>>]
           ELSE reqs' = [reqs EXCEPT ![c].pc = "insertProperty", ![c].now = clock]
    /\ UNCHANGED <<renterPortal, landlordPortal, users, rental_properties, leases, payments, clock, initialBalance, torn>>

\* createRentalProperty: INSERT INTO rental_properties of the demo unit
EnsurePropertyInsert(c) ==
    /\ reqs[c].op = "ensureDemoRentalData" /\ reqs[c].pc = "insertProperty"
    /\ rental_properties' =
            InsertRentalProperty(rental_properties, reqs[c].args[1].landlord[1].id,
                                 "Demo Duplex", Fin(DemoRent), reqs[c].now)
    /\ reqs' = [reqs EXCEPT ![c].pc = "selectProperty"]
    /\ UNCHANGED <<renterPortal, landlordPortal, users, leases, payments, clock, initialBalance, torn>>

\* createRentalProperty: prop = the created row; getActiveLeaseForProperty is awaited
EnsurePropertySelect(c) ==
    /\ reqs[c].op = "ensureDemoRentalData" /\ reqs[c].pc = "selectProperty"
    /\ reqs' = [reqs EXCEPT ![c].pc = "activeLease",
                            ![c].properties =
                                LastPropertyByTitle(reqs[c].args[1].landlord[1].id,
                                                    "Demo Duplex")]
    /\ UNCHANGED <<renterPortal, landlordPortal, users, rental_properties, leases, payments, clock, initialBalance, torn>>

\* activeLease = getActiveLeaseForProperty(prop.id); with one the bootstrap is
\* done, else createLease reads the clock and awaits its INSERT
EnsureLease(c) ==
    /\ reqs[c].op = "ensureDemoRentalData" /\ reqs[c].pc = "activeLease"
    /\ reqs' = [reqs EXCEPT ![c] =
            IF getActiveLeaseForProperty(reqs[c].properties[1].id) # <<>>
            THEN Idle
            ELSE [reqs[c] EXCEPT !.pc = "insertLease", !.now = clock]]
    /\ UNCHANGED <<renterPortal, landlordPortal, users, rental_properties, leases, payments, clock, initialBalance, torn>>

\* createLease: INSERT INTO leases of the lease with one month due
EnsureLeaseInsert(c) ==
    /\ reqs[c].op = "ensureDemoRentalData" /\ reqs[c].pc = "insertLease"
    /\ leases' = InsertLease(leases, reqs[c].properties[1].id, reqs[c].args[1].renter[1].id,
                             Fin(DemoRent), Fin(1), Fin(DemoRent), reqs[c].now)
    /\ initialBalance' = Append(initialBalance, Fin(DemoRent))
    /\ reqs' = [reqs EXCEPT ![c].pc = "selectLease"]
    /\ UNCHANGED <<renterPortal, landlordPortal, users, rental_properties, payments, clock, torn>>

\* createLease: the created row is read and dropped; the bootstrap is done
EnsureLeaseSelect(c) ==
    /\ reqs[c].op = "ensureDemoRentalData" /\ reqs[c].pc = "selectLease"
    /\ reqs' = [reqs EXCEPT ![c] = Idle]
    /\ UNCHANGED <<renterPortal, landlordPortal, users, rental_properties, leases, payments, clock, initialBalance, torn>>

----------------------------------------------------------------------------
(* POST /auth/register *)

\* isValidEmail: /\S+@\S+\.\S+/.test(String(email || '')), on the addresses of the model
isValidEmail(email) ==
    email \in {"landlord@demo.com", "renter@demo.com", "Renter@Demo.com", "tenant@demo.com"}

\* isValidPassword: a string of at least 6 characters
isValidPassword(password) == Len(password) >= 6

\* what registerHandler decides before it looks up the address
RegisterRejection(email, password) ==
    IF ~isValidEmail(email)
        THEN Reject(400, "Please provide a valid email.")
    ELSE IF ~isValidPassword(password)
        THEN Reject(400, "Password must be at least 6 characters.")
    ELSE Accept

\* the request as it arrives: the checks of the body come before the first
\* await, which is getUserByEmail
RegisterStart(c, email, password) ==
    /\ FreeConn(c)
    /\ LET rejection == RegisterRejection(email, password)
       IN  reqs' = [reqs EXCEPT ![c] =
                IF rejection.status # 0
                THEN Responding("register", 0, rejection.status, rejection.error)
                ELSE [Idle EXCEPT !.op = "register", !.pc = "getUser",
                                  !.args = <<[email |-> email]>>]]
    /\ UNCHANGED <<renterPortal, landlordPortal, users, rental_properties, leases, payments, clock, initialBalance, torn>>

\* existing = getUserByEmail(email): 409, or bcrypt.hash is awaited
RegisterGetUser(c) ==
    /\ reqs[c].op = "register" /\ reqs[c].pc = "getUser"
    /\ reqs' = [reqs EXCEPT ![c] =
            IF getUserByEmail(reqs[c].args[1].email) # <<>>
            THEN Responding("register", 0, 409, "Email already registered.")
            ELSE [reqs[c] EXCEPT !.pc = "hash"]]
    /\ UNCHANGED <<renterPortal, landlordPortal, users, rental_properties, leases, payments, clock, initialBalance, torn>>

\* bcrypt.hash has resolved; the user record is built with the address in lower
\* case and without a role, and createUser awaits its INSERT
RegisterHash(c) ==
    /\ reqs[c].op = "register" /\ reqs[c].pc = "hash"
    /\ reqs' = [reqs EXCEPT ![c].pc = "createUser",
                            ![c].args = <<[email |-> toLowerCase(reqs[c].args[1].email)]>>]
    /\ UNCHANGED <<renterPortal, landlordPortal, users, rental_properties, leases, payments, clock, initialBalance, torn>>

\* db.createUser(user) and res.status(201); when the INSERT fails the catch
\* answers 500
RegisterCreate(c) ==
    /\ reqs[c].op = "register" /\ reqs[c].pc = "createUser"
    /\ users' = createUser(users, reqs[c].args[1].email, "")
    /\ reqs' = [reqs EXCEPT ![c] =
            IF EmailTaken(users, reqs[c].args[1].email)
            THEN Responding("register", 0, 500, "Something went wrong.")
            ELSE [Idle EXCEPT !.op = "register", !.pc = "respond", !.status = 201]]
    /\ UNCHANGED <<renterPortal, landlordPortal, rental_properties, leases, payments, clock, initialBalance, torn>>

----------------------------------------------------------------------------
\* the response has been sent and the connection is free again (a response to a
\* call whose promise a portal awaits is taken by the portal)
Respond(c) ==
    /\ reqs[c].pc = "respond"
    /\ c \notin RenterAwaits \cup LandlordAwaits
    /\ reqs' = [reqs EXCEPT ![c] = Idle]
    /\ UNCHANGED <<renterPortal, landlordPortal, users, rental_properties, leases, payments, clock, initialBalance, torn>>

----------------------------------------------------------------------------
(* The specifications.  The inputs are drawn from small sets, and a request *)
(* that may write arrives only while the tables have room.                  *)

LeaseIds == 1..(MaxLeases + 1)
FewLeaseIds == 1..2
PropertyIds == 0..3
RenterIds == {"", OtherRenter}
Amounts == {JsNum(1200), JsNum(1300), JsFrac(0), JsNum(0), JsNum(-100), JsText, JsHuge}
Deltas == {JsNum(1200), JsNum(-100), JsFrac(0), JsNum(0), JsText}
FewAmounts == {JsNum(1200), JsNum(0), JsText}
FewDeltas == {JsNum(-100), JsNum(0), JsText}
Rents == {JsNum(1200), JsFrac(0), JsNum(0), JsText}
DueDays == {JsNum(1), JsNum(32), JsFrac(1)}
Balances == {JsNum(1200), JsFrac(1), JsUndefined}

RoomForPayment(max) == Len(payments) + Cardinality(PendingInserts) < max
RoomForLease(max) == Len(leases) + Cardinality(PendingLeases) < max
MayTear == torn = {} /\ MaxTorn > 0
NoResponse == \A c \in Conns : reqs[c].pc # "respond"
AllIdle == \A c \in Conns : reqs[c].pc = "idle"

PayArrives(max, leaseIds, amounts) ==
    \E c \in Conns : FreeConn(c) /\ \E sub \in Subjects, leaseId \in leaseIds, amount \in amounts :
        /\ RoomForPayment(max)
        /\ PayStart(c, sub, leaseId, amount)

AdjustArrives(max, leaseIds, deltas) ==
    \E c \in Conns : FreeConn(c) /\ \E sub \in Subjects, leaseId \in leaseIds, balance \in deltas :
        /\ RoomForPayment(max)
        /\ AdjustStart(c, sub, leaseId, balance)

CreateLeaseArrives(max) ==
    \E c \in Conns : FreeConn(c) /\ \E sub \in Subjects, propertyId \in PropertyIds,
                                     renterId \in RenterIds, monthlyRent \in Rents,
                                     dueDay \in DueDays, currentBalance \in Balances :
        /\ RoomForLease(max)
        /\ CreateLeaseStart(c, sub, propertyId, renterId, monthlyRent, dueDay, currentBalance)

\* the steps of the Pay and adjustBalance requests in flight
LedgerSteps ==
    \/ \E c \in Conns : PayGetUser(c)
    \/ \E c \in Conns : PayFindLease(c)
    \/ \E c \in Conns : PayInsert(c)
    \/ \E c \in Conns : PayInsertFails(c)
    \/ \E c \in Conns : PayUpdate(c)
    \/ \E c \in Conns : PaySelectPayment(c)
    \/ \E c \in Conns : PayGetLease(c)
    \/ \E c \in Conns : PayListPayments(c)
    \/ \E c \in Conns : AdjustGetUser(c)
    \/ \E c \in Conns : AdjustFindLease(c)
    \/ \E c \in Conns : AdjustFindProperty(c)
    \/ \E c \in Conns : AdjustUpdate(c)
    \/ \E c \in Conns : AdjustUpdateFails(c)
    \/ \E c \in Conns : AdjustSelectLease(c)
    \/ \E c \in Conns : AdjustInsert(c)
    \/ \E c \in Conns : AdjustSelectPayment(c)

\* the storage rejects the second write of a pair
Tears ==
    \/ \E c \in Conns : PayUpdateFails(c)
    \/ \E c \in Conns : AdjustInsertFails(c)

LeaseSteps ==
    \/ \E c \in Conns : CreateLeaseGetUser(c)
    \/ \E c \in Conns : CreateLeaseFindProperty(c)
    \/ \E c \in Conns : CreateLeaseInsert(c)
    \/ \E c \in Conns : CreateLeaseSelect(c)

Responds == \E c \in Conns : Respond(c)

\* Spec: Pay and adjustBalance requests on the seeded leases overlap freely, and
\* the storage may reject writes.  A response leaves in the step that made it.
Next ==
    \/ Responds
    \/ NoResponse /\ clock < MaxClock /\ Tick
    \/ NoResponse /\ PayArrives(MaxPayments, FewLeaseIds, Amounts)
    \/ NoResponse /\ AdjustArrives(MaxPayments, FewLeaseIds, Deltas)
    \/ NoResponse /\ LedgerSteps
    \/ NoResponse /\ MayTear /\ Tears

Spec == Init /\ [][Next]_vars

\* SpecLeases: leases are created too, and the storage may reject writes; a
\* request arrives when the last has been answered, with fewer amounts to choose from
NextLeases ==
    \/ Responds
    \/ NoResponse /\ clock < MaxClock /\ Tick
    \/ AllIdle /\ PayArrives(MaxPayments, LeaseIds, FewAmounts)
    \/ AllIdle /\ AdjustArrives(MaxPayments, LeaseIds, FewDeltas)
    \/ AllIdle /\ CreateLeaseArrives(MaxLeases)
    \/ NoResponse /\ LedgerSteps
    \/ NoResponse /\ LeaseSteps
    \/ NoResponse /\ MayTear /\ Tears

SpecLeases == Init /\ [][NextLeases]_vars

\* SpecScenario: a longer ledger on the seeded lease, one request at a time
NextScenario ==
    \/ Responds
    \/ NoResponse /\ clock < MaxClock /\ Tick
    \/ AllIdle /\ PayArrives(MaxScenarioPayments, FewLeaseIds, Amounts)
    \/ AllIdle /\ AdjustArrives(MaxScenarioPayments, FewLeaseIds, Deltas)
    \/ NoResponse /\ LedgerSteps

SpecScenario == Init /\ [][NextScenario]_vars

\* the steps of GET /rentals/properties and GET /rentals/leases
LandlordViewSteps ==
    \/ \E c \in Conns : PropertiesGetUser(c)
    \/ \E c \in Conns : PropertiesList(c)
    \/ \E c \in Conns, k \in DOMAIN rental_properties : PropertiesActiveLease(c, k)
    \/ \E c \in Conns : LandlordLeasesGetUser(c)
    \/ \E c \in Conns : LandlordLeasesList(c)

\* the steps of the adjustBalance requests in flight
AdjustSteps ==
    \/ \E c \in Conns : AdjustGetUser(c)
    \/ \E c \in Conns : AdjustFindLease(c)
    \/ \E c \in Conns : AdjustFindProperty(c)
    \/ \E c \in Conns : AdjustUpdate(c)
    \/ \E c \in Conns : AdjustSelectLease(c)
    \/ \E c \in Conns : AdjustInsert(c)
    \/ \E c \in Conns : AdjustSelectPayment(c)

\* the steps of GET /rentals/my-lease
MyLeaseSteps ==
    \/ \E c \in Conns : MyLeaseGetUser(c)
    \/ \E c \in Conns : MyLeaseListLeases(c)
    \/ \E c \in Conns : MyLeaseListPayments(c)

MyLeaseArrives == \E c \in Conns, sub \in Subjects : MyLeaseStart(c, sub)

PayMethods == {"saved", "new", "newInvalid"}

\* the portal has rendered since setIsAuthed(true): the buttons of the signed-in
\* view are on the page
RenterRendered == ~renterPortal.effectDue
LandlordRendered == ~landlordPortal.effectDue

\* what the user of the RenterPortal does: sign in, with or without success, and
\* out, save a card, pay.  A command is given when nothing is in flight, or at any
\* time when it fails the check of its form; the tables have room for max rows of
\* payments
RenterCommands(max, renters, payTexts) ==
    \/ AllIdle /\ RenterHandleLogin
    \/ \E user \in renters : RenterSignedIn(user)
    \/ RenterSignInRejected
    \/ RenterRendered /\ AllIdle /\ RenterHandleLogout
    \/ RenterRendered /\ AllIdle /\ \E card \in {"valid", "empty"} : handlePaymentSave(card)
    \/ RenterRendered /\ (AllIdle \/ UNCHANGED reqs) /\ RoomForPayment(max)
           /\ \E c \in Conns, payAmount \in payTexts, method \in PayMethods :
                  handleConfirmPayment(c, payAmount, method)

\* what the user of the LandlordPortal does: sign in, with or without success,
\* and out, adjust by the balance field of a card, add a monthly charge
LandlordCommands(max, landlords, balanceTexts) ==
    \/ AllIdle /\ LandlordHandleLogin
    \/ \E user \in landlords : LandlordSignedIn(user)
    \/ LandlordSignInRejected
    \/ LandlordRendered /\ AllIdle /\ LandlordHandleLogout
    \/ LandlordRendered /\ (AllIdle \/ UNCHANGED reqs) /\ RoomForPayment(max)
           /\ \E c \in Conns, k \in 1..2, raw \in balanceTexts : handleBalanceSave(c, k, raw)
    \/ LandlordRendered /\ AllIdle /\ RoomForPayment(max)
           /\ \E c \in Conns, k \in 1..2 : AddMonthlyCharge(c, k)

\* the effect of the RenterPortal that loads, the requests of the portal that
\* read, and the answers the portal takes
RenterAnswers ==
    \/ \E c \in Conns : RenterLeaseEffect(c)
    \/ MyLeaseSteps
    \/ \E c \in Conns : RenterPortalLoaded(c)
    \/ \E c \in Conns : RenterPortalPaid(c)

\* the effect of the LandlordPortal that loads, the requests of the portal that
\* read, and the answers the portal takes
LandlordAnswers ==
    \/ LandlordLoadEffect(1, 2)
    \/ LandlordViewSteps
    \/ \E c \in Conns : LandlordPortalLoaded(c)
    \/ \E c \in Conns : LandlordPortalSaved(c)

\* the steps of the requests that write, where the storage may reject a write,
\* and the answers no portal waits for
WriteSteps ==
    \/ LedgerSteps
    \/ MayTear /\ Tears
    \/ Responds

\* SpecRenter and SpecLandlord start where the demo landlord has created a second
\* unit and let it to the other renter for 900 a month, with one month due.  On
\* the seeded lease the landlord has charged a month and credited 100, and the
\* demo renter has paid 1100, so that it owes one monthly rent again.
RenterAccounts == {DemoRenter, OtherRenter, DemoLandlord}
PortalLandlordAccounts == {DemoLandlord, OtherLandlord, DemoRenter}
SecondRent == 900
PortalLedger == <<[type |-> "charge", amount |-> Fin(DemoRent)],
                  [type |-> "credit", amount |-> Fin(-100)],
                  [type |-> "payment", amount |-> Fin(1100)]>>

\* the rows of payments that log a ledger of the seeded lease, all written at clock 1
LedgerRows(ledger) ==
    [i \in DOMAIN ledger |-> [id |-> i, lease_id |-> 1, amount |-> ledger[i].amount,
                              paid_at |-> 1, type |-> ledger[i].type]]

\* what a ledger adds to the balance
LedgerSum(ledger) ==
    SeqSum([i \in DOMAIN ledger |-> IF ledger[i].type = "payment"
                                    THEN Minus(Zero, ledger[i].amount)
                                    ELSE ledger[i].amount])

InitPortals ==
    /\ users = (DemoLandlord :> "landlord") @@ (DemoRenter :> "renter")
               @@ (OtherLandlord :> "landlord") @@ (OtherRenter :> "renter")
    /\ rental_properties = <<[id |-> 1, landlord_id |-> DemoLandlord, title |-> "Demo Duplex", monthly_rent |-> Fin(DemoRent), created_at |-> 0],
                             [id |-> 2, landlord_id |-> OtherLandlord, title |-> "Unit", monthly_rent |-> Fin(DemoRent), created_at |-> 0],
                             [id |-> 3, landlord_id |-> DemoLandlord, title |-> "Second unit", monthly_rent |-> Fin(SecondRent), created_at |-> 1]>>
    /\ leases = InsertLease(InsertLease(<<>>, 1, DemoRenter, Fin(DemoRent), Fin(1),
                                        Plus(Fin(DemoRent), LedgerSum(PortalLedger)), 0),
                            3, OtherRenter, Fin(SecondRent), Fin(1), Fin(SecondRent), 1)
    /\ payments = LedgerRows(PortalLedger)
    /\ initialBalance = <<Fin(DemoRent), Fin(SecondRent)>>
    /\ clock = 1
    /\ reqs = [c \in Conns |-> Idle]
    /\ torn = {}
    /\ renterPortal = RenterPortalMounted(DemoRenter)
    /\ landlordPortal = LandlordPortalMounted(DemoLandlord)

\* SpecRenter: one RenterPortal beside the other clients of the server.  Any of
\* the accounts signs in to the portal, with or without success, saves a card and
\* pays; an adjustBalance arrives from any client when no request is in flight,
\* the clock moves and the storage may reject a write.  One more row of payments
\* is written.
PortalPayTexts == {JsStr(1200), JsStr(1500), JsText}
PortalDeltas == {JsNum(1), JsNum(-100)}

NextRenter ==
    \/ clock < MaxPortalClock /\ Tick
    \/ RenterCommands(MaxPortalPayments, RenterAccounts, PortalPayTexts)
    \/ RenterAnswers
    \/ AllIdle /\ AdjustArrives(MaxPortalPayments, FewLeaseIds, PortalDeltas)
    \/ WriteSteps

SpecRenter == InitPortals /\ [][NextRenter]_vars

\* SpecLandlord: one LandlordPortal beside the other clients of the server.  Any
\* of the accounts signs in to the portal, with or without success, adjusts by
\* the balance field and adds monthly charges; the Pay requests of the renters
\* arrive from any client at any time, the clock moves and the storage may reject
\* a write.  One more row of payments is written.
PortalBalanceTexts == {JsStr(-100), JsStr(1), JsText}
PortalAmounts == {JsNum(1200), JsNum(1500)}

NextLandlord ==
    \/ clock < MaxPortalClock /\ Tick
    \/ LandlordCommands(MaxPortalPayments, PortalLandlordAccounts, PortalBalanceTexts)
    \/ LandlordAnswers
    \/ PayArrives(MaxPortalPayments, FewLeaseIds, PortalAmounts)
    \/ WriteSteps

SpecLandlord == InitPortals /\ [][NextLandlord]_vars

\* SpecViews: the renters read their lease while landlords create leases for them
\* and adjust balances, one request at a time.  The first request arrives after
\* the millisecond of the seeding.
ViewRenterIds == {DemoRenter, OtherRenter}
ViewPropertyIds == {1, 2}
ViewDeltas == {JsNum(1200), JsNum(-100)}

InitViews ==
    /\ users = (DemoLandlord :> "landlord") @@ (DemoRenter :> "renter")
               @@ (OtherLandlord :> "landlord") @@ (OtherRenter :> "renter")
    /\ rental_properties = <<[id |-> 1, landlord_id |-> DemoLandlord, title |-> "Demo Duplex", monthly_rent |-> Fin(DemoRent), created_at |-> 0],
                             [id |-> 2, landlord_id |-> OtherLandlord, title |-> "Unit", monthly_rent |-> Fin(DemoRent), created_at |-> 0]>>
    /\ leases = InsertLease(<<>>, 1, DemoRenter, Fin(DemoRent), Fin(1), Fin(DemoRent), 0)
    /\ payments = <<>>
    /\ clock = 1
    /\ reqs = [c \in Conns |-> Idle]
    /\ initialBalance = <<Fin(DemoRent)>>
    /\ torn = {}
    /\ renterPortal = RenterPortalMounted(DemoRenter)
    /\ landlordPortal = LandlordPortalMounted(DemoLandlord)

ViewCreateLeaseArrives ==
    \E c \in Conns : FreeConn(c) /\ \E sub \in Subjects, propertyId \in ViewPropertyIds,
                                     renterId \in ViewRenterIds :
        /\ RoomForLease(MaxViewLeases)
        /\ CreateLeaseStart(c, sub, propertyId, renterId, JsNum(DemoRent), JsNum(1), JsUndefined)

NextViews ==
    \/ Responds
    \/ NoResponse /\ clock < MaxViewClock /\ Tick
    \/ AllIdle /\ MyLeaseArrives
    \/ AllIdle /\ AdjustArrives(MaxViewPayments, 1..MaxViewLeases, ViewDeltas)
    \/ AllIdle /\ ViewCreateLeaseArrives
    \/ NoResponse /\ MyLeaseSteps
    \/ NoResponse /\ AdjustSteps
    \/ NoResponse /\ LeaseSteps

SpecViews == InitViews /\ [][NextViews]_vars

\* SpecCommands: the two portals are the only clients, on the seeded database.
\* The demo renter signs in to the RenterPortal, the demo landlord or the demo
\* renter to the LandlordPortal, with or without success; they load, save a card,
\* pay, adjust and add monthly charges, the clock moves and the storage may reject
\* a write.  They give one command that writes.
LandlordAccounts == {DemoLandlord, DemoRenter}
PayTexts == {JsStr(1200), JsStr(0), JsText}
BalanceTexts == {JsStr(-100), JsEmpty, JsUndefined, JsText}

NextCommands ==
    \/ clock < MaxClock /\ Tick
    \/ RenterCommands(MaxCommandPayments, {DemoRenter}, PayTexts)
    \/ LandlordCommands(MaxCommandPayments, LandlordAccounts, BalanceTexts)
    \/ RenterAnswers
    \/ LandlordAnswers
    \/ WriteSteps

SpecCommands == Init /\ [][NextCommands]_vars

\* SpecBootstrap: the database is empty when the server first starts, and the
\* server listens once db.init() has resolved.  ensureDemoRentalData is exported
\* and has no caller in the source: a run of it starts at any time when no
\* request is in flight.  The requests are served one at a time, but for the
\* registrations of accounts, which overlap
MaxBootProperties == 3
MaxBootPayments == 1
PropertyTitles == {"", "Second unit"}
PropertyRents == {JsNum(900), JsText}
RegisterEmails == {"Renter@Demo.com", "tenant@demo.com", "tenant"}
RegisterPasswords == {"password123", "pass"}

InitBootstrap ==
    /\ users = [id \in {} |-> ""]
    /\ rental_properties = <<>>
    /\ leases = <<>>
    /\ payments = <<>>
    /\ clock = 0
    /\ reqs = [c \in Conns |-> Idle]
    /\ initialBalance = <<>>
    /\ torn = {}
    /\ renterPortal = RenterPortalMounted(DemoRenter)
    /\ landlordPortal = LandlordPortalMounted(DemoLandlord)

CreatePropertyArrives ==
    \E c \in Conns, sub \in Subjects, title \in PropertyTitles, monthlyRent \in PropertyRents :
        /\ Len(rental_properties) < MaxBootProperties
        /\ CreatePropertyStart(c, sub, title, monthlyRent)

RegisterArrives ==
    \E c \in Conns, email \in RegisterEmails, password \in RegisterPasswords :
        RegisterStart(c, email, password)

\* the server listens once db.init() has resolved, on the empty tables too;
\* nothing is in flight but the registration of an account
Serving == \A c \in Conns : reqs[c].op \in {"none", "register"}

NextBootstrap ==
    \/ Responds
    \/ clock < MaxBootClock /\ Tick
    \/ AllIdle /\ \E c \in Conns : ensureDemoRentalData(c)
    \/ \E c \in Conns : EnsureUser(c)
    \/ \E c \in Conns : EnsureUserHash(c)
    \/ \E c \in Conns : EnsureUserCreate(c)
    \/ \E c \in Conns : EnsureReadUser(c)
    \/ \E c \in Conns : EnsureProperty(c)
    \/ \E c \in Conns : EnsurePropertyInsert(c)
    \/ \E c \in Conns : EnsurePropertySelect(c)
    \/ \E c \in Conns : EnsureLease(c)
    \/ \E c \in Conns : EnsureLeaseInsert(c)
    \/ \E c \in Conns : EnsureLeaseSelect(c)
    \/ Serving /\ RegisterArrives
    \/ \E c \in Conns : RegisterGetUser(c)
    \/ \E c \in Conns : RegisterHash(c)
    \/ \E c \in Conns : RegisterCreate(c)
    \/ AllIdle /\ CreatePropertyArrives
    \/ \E c \in Conns : CreatePropertyGetUser(c)
    \/ \E c \in Conns : CreatePropertyInsert(c)
    \/ \E c \in Conns : CreatePropertySelect(c)
    \/ AllIdle /\ PayArrives(MaxBootPayments, FewLeaseIds, FewAmounts)
    \/ AllIdle /\ AdjustArrives(MaxBootPayments, FewLeaseIds, FewDeltas)
    \/ LedgerSteps

SpecBootstrap == InitBootstrap /\ [][NextBootstrap]_vars

\* SpecRoles: a landlord may name any account as the renter of a lease, a
\* landlord's own included; every account then sends Pay, adjustBalance and
\* createLease requests, one at a time
MaxRoleLeases == 2
MaxRolePayments == 1
RoleRenterIds == {DemoLandlord, DemoRenter}
RolePropertyIds == {1, 3}

RoleCreateLeaseArrives ==
    \E c \in Conns : FreeConn(c) /\ \E sub \in Subjects, propertyId \in RolePropertyIds,
                                     renterId \in RoleRenterIds, monthlyRent \in Rents :
        /\ RoomForLease(MaxRoleLeases)
        /\ CreateLeaseStart(c, sub, propertyId, renterId, monthlyRent, JsNum(1), JsNum(DemoRent))

NextRoles ==
    \/ Responds
    \/ NoResponse /\ clock < MaxClock /\ Tick
    \/ AllIdle /\ RoleCreateLeaseArrives
    \/ AllIdle /\ PayArrives(MaxRolePayments, LeaseIds, FewAmounts)
    \/ AllIdle /\ AdjustArrives(MaxRolePayments, LeaseIds, FewDeltas)
    \/ LedgerSteps
    \/ LeaseSteps

SpecRoles == Init /\ [][NextRoles]_vars

----------------------------------------------------------------------------
(* The ledger and the balance *)

\* what an entry does to the balance: a payment subtracts its amount, a charge
\* and a credit add theirs
SignedEffect(entry) ==
    IF entry.type = "payment" THEN Minus(Zero, entry.amount) ELSE entry.amount

\* the sum of the signed effects of the entries of a lease
LedgerEffects(leaseId) ==
    LET rows == PaymentsOfLease(payments, leaseId)
    IN  SeqSum([i \in DOMAIN rows |-> SignedEffect(rows[i])])

\* a Pay or an adjustBalance on the lease has done its first write and not its second
BetweenWrites(leaseId) ==
    \E c \in Conns :
        /\ reqs[c].leaseId = leaseId
        /\ \/ reqs[c].op = "pay" /\ reqs[c].pc = "update"
           \/ reqs[c].op = "adjust" /\ reqs[c].pc \in {"selectLease", "insert"}

\* C1: once the Pay and adjustBalance commands have been answered, the
\* current_balance of a lease that has entries is the sum of the signed effects
\* of its entries.  The balance createLease stored has no entry, and an entry
\* whose UPDATE the storage rejected has no effect on the balance, so this fails.
C1_BalanceIsSumOfEffects ==
    \A i \in DOMAIN leases :
        (AllIdle /\ PaymentsOfLease(payments, leases[i].id) # <<>>)
            => leases[i].current_balance = LedgerEffects(leases[i].id)

\* C2: in every reachable state every lease's current_balance reflects exactly
\* its entries: no entry whose effect is not applied, no applied change without
\* its entry.  The two writes are separate statements, so this fails between
\* them and for good when the second is rejected.
C2_NoPartialApplication ==
    \A i \in DOMAIN leases :
        leases[i].current_balance = Plus(initialBalance[i], LedgerEffects(leases[i].id))

\* the lease is unknown or names another renter
NotOwnLease(sub, leaseId) ==
    \/ getLeaseById(leaseId) = <<>>
    \/ getLeaseById(leaseId)[1].renter_id # sub

\* the lease is on a unit of another landlord
NotOwnUnit(sub, leaseId) ==
    LET property == getRentalPropertyById(getLeaseById(leaseId)[1].property_id)
    IN  property = <<>> \/ property[1].landlord_id # sub

\* the answer of the request on connection c
Answered(c, status, error) ==
    reqs'[c].pc = "respond" /\ reqs'[c].status = status /\ reqs'[c].error = error

\* the request on connection c takes the step it stands at
Steps(c, op, pc) == reqs[c].op = op /\ reqs[c].pc = pc /\ reqs'[c] # reqs[c]

\* C3: a Pay by a renter whose amount, after Number(), is not finite or not
\* above zero is answered 400 by the step that checks the amount, and that
\* step inserts no payments row and changes no lease.
C3_InvalidAmountRejected ==
    [][\A c \in Conns :
          Steps(c, "pay", "getUser") =>
              LET sub == reqs[c].args[1].sub
                  value == Number(reqs[c].args[1].amount)
              IN  (/\ requireRole("renter", sub)
                   /\ ~NumberIsFinite(value) \/ LessEq(value, Zero))
                  => /\ reqs'[c].pc = "respond" /\ reqs'[c].status = 400 /\ reqs'[c].wrote = 0
                     /\ reqs'[c].error = "Payment amount must be positive."
                     /\ payments' = payments
                     /\ leases' = leases]_vars

\* a Pay has been answered 400
C3_Witness ==
    \E c \in Conns : reqs[c].op = "pay" /\ reqs[c].pc = "respond" /\ reqs[c].status = 400

\* the step appends a row to payments, and this is the row
Appended == IF Len(payments') > Len(payments) THEN <<payments'[Len(payments')]>> ELSE <<>>

\* C4: a Pay on a lease of another renter is answered 403 by the step that
\* checks the lease, and that step changes neither payments nor leases; a Pay
\* comes to its INSERT only through that step and only when its subject is the
\* renter of the lease, and a payment entry is appended to a lease only by
\* such a Pay.
C4_OnlyOwnLease ==
    [][/\ \A c \in Conns :
            /\ Steps(c, "pay", "findLease") =>
                  LET sub == reqs[c].args[1].sub
                      lease == getLeaseById(reqs[c].leaseId)
                  IN  /\ (lease # <<>> /\ lease[1].renter_id # sub)
                         => /\ reqs'[c].pc = "respond" /\ reqs'[c].status = 403
                            /\ payments' = payments /\ leases' = leases
                      /\ reqs'[c].pc = "insert"
                         => lease # <<>> /\ lease[1].renter_id = sub
            /\ (reqs'[c].op = "pay" /\ reqs'[c].pc = "insert" /\ reqs'[c] # reqs[c])
                  => Steps(c, "pay", "findLease")
       /\ (Appended # <<>> /\ Appended[1].type = "payment") =>
             \E c \in Conns : /\ reqs[c].op = "pay" /\ reqs[c].pc = "insert"
                               /\ reqs[c].leaseId = Appended[1].lease_id]_vars

\* a Pay on an existing lease has been answered that it is not the subject's lease
C4_Witness ==
    \E c \in Conns :
        /\ reqs[c].op = "pay" /\ reqs[c].pc = "respond" /\ reqs[c].status = 403
        /\ reqs[c].error = "You can only pay your own lease."
        /\ getLeaseById(reqs[c].leaseId) # <<>>

\* C5: an adjustBalance on a lease whose property belongs to another landlord
\* is answered 403 by the step that checks the property, and that step changes
\* neither payments nor leases; an adjustBalance comes to its UPDATE only
\* through that step and only when its subject owns the property of the lease,
\* and a charge or credit entry is appended only by such a request.
C5_OnlyOwnProperty ==
    [][/\ \A c \in Conns :
            /\ Steps(c, "adjust", "findProperty") =>
                  LET sub == reqs[c].args[1].sub
                      lease == getLeaseById(reqs[c].leaseId)
                      property == getRentalPropertyById(lease[1].property_id)
                  IN  /\ (property # <<>> /\ property[1].landlord_id # sub)
                         => /\ reqs'[c].pc = "respond" /\ reqs'[c].status = 403
                            /\ payments' = payments /\ leases' = leases
                      /\ reqs'[c].pc = "update"
                         => property # <<>> /\ property[1].landlord_id = sub
            /\ (reqs'[c].op = "adjust" /\ reqs'[c].pc = "update" /\ reqs'[c] # reqs[c])
                  => Steps(c, "adjust", "findProperty")
       /\ (Appended # <<>> /\ Appended[1].type \in {"charge", "credit"}) =>
             \E c \in Conns : /\ reqs[c].op = "adjust" /\ reqs[c].pc = "insert"
                               /\ reqs[c].leaseId = Appended[1].lease_id]_vars

\* an adjustBalance has been answered that the lease is not the subject's
C5_Witness ==
    \E c \in Conns :
        /\ reqs[c].op = "adjust" /\ reqs[c].pc = "respond" /\ reqs[c].status = 403
        /\ reqs[c].error = "You can only update your own leases."
        /\ getLeaseById(reqs[c].leaseId) # <<>>

\* C6: the INSERT of an adjustBalance, unless the storage rejects it, appends
\* exactly one entry, to its lease and with the submitted delta as amount: of
\* type charge when the delta is above zero, of type credit when it is below,
\* and never of type payment; the delta it carries is Number() of the submitted
\* balance, and the request is answered 200 only after that one INSERT.
C6_SignDecidesType ==
    [][\A c \in Conns :
          /\ (Steps(c, "adjust", "insert") /\ reqs'[c].pc # "respond")
             => /\ Len(payments') = Len(payments) + 1
                /\ SubSeq(payments', 1, Len(payments)) = payments
                /\ reqs'[c].wrote = 1
                /\ LET entry == payments'[Len(payments')]
                   IN  /\ entry.lease_id = reqs[c].leaseId
                       /\ entry.amount = reqs[c].value
                       /\ entry.type # "payment"
                       /\ Less(Zero, reqs[c].value) => entry.type = "charge"
                       /\ Less(reqs[c].value, Zero) => entry.type = "credit"
          /\ (Steps(c, "adjust", "getUser") /\ reqs'[c].pc # "respond")
             => reqs'[c].value = Number(reqs[c].args[1].balance)
          /\ (reqs'[c].op = "adjust" /\ reqs'[c].pc = "respond" /\ reqs'[c].status = 200
                 /\ reqs'[c] # reqs[c])
             => Steps(c, "adjust", "selectPayment") /\ reqs[c].wrote = 1]_vars

\* the ledger holds a charge of 1200 and a credit of -100
C6_Witness ==
    /\ \E i \in DOMAIN payments : payments[i].type = "charge" /\ payments[i].amount = Fin(1200)
    /\ \E i \in DOMAIN payments : payments[i].type = "credit" /\ payments[i].amount = Fin(-100)

\* C7: every stored entry meets the amount constraint of its type: a payment
\* and a charge have an amount above zero, a credit an amount below zero.  A
\* delta of 0 is finite, so adjustBalance stores a credit of 0 and this fails.
C7_AmountConstraints ==
    \A i \in DOMAIN payments :
        /\ payments[i].type = "payment" => Less(Zero, payments[i].amount)
        /\ payments[i].type = "charge" => Less(Zero, payments[i].amount)
        /\ payments[i].type = "credit" => Less(payments[i].amount, Zero)

\* the rows of a lease are exactly two payments of the same amount, both applied
TwoEqualPays(i) ==
    LET rows == PaymentsOfLease(payments, leases[i].id)
    IN  /\ ~BetweenWrites(leases[i].id) /\ leases[i].id \notin torn
        /\ Len(rows) = 2
        /\ rows[1].type = "payment" /\ rows[2].type = "payment"
        /\ rows[1].amount = rows[2].amount

\* C8: a Pay that repeats an earlier payment of the same amount on the same
\* lease inserts a row of its own with a new id and subtracts its amount again;
\* after two equal payments the lease has two rows with different ids and its
\* balance is down by twice the amount.
C8_PayTwice ==
    [][/\ \A c \in Conns :
            (/\ reqs[c].op = "pay"
             /\ \E i \in DOMAIN payments :
                    /\ payments[i].lease_id = reqs[c].leaseId
                    /\ payments[i].type = "payment"
                    /\ payments[i].amount = reqs[c].value)
            => /\ (reqs[c].pc = "insert" /\ reqs'[c].pc = "update")
                  => /\ Len(payments') = Len(payments) + 1
                     /\ SubSeq(payments', 1, Len(payments)) = payments
                     /\ \A i \in DOMAIN payments : payments[i].id # payments'[Len(payments')].id
                     /\ payments'[Len(payments')].lease_id = reqs[c].leaseId
                     /\ payments'[Len(payments')].amount = reqs[c].value
                     /\ payments'[Len(payments')].type = "payment"
               /\ (reqs[c].pc = "update" /\ reqs'[c].pc = "selectPayment")
                  => \A i \in DOMAIN leases :
                         leases[i].id = reqs[c].leaseId
                         => leases'[i].current_balance
                                = Minus(leases[i].current_balance, reqs[c].value)
       /\ \A i \in DOMAIN leases' :
            TwoEqualPays(i)' =>
                LET rows == PaymentsOfLease(payments', leases'[i].id)
                IN  /\ rows[1].id # rows[2].id
                    /\ leases'[i].current_balance
                           = Minus(Minus(initialBalance'[i], rows[1].amount), rows[2].amount)]_vars

\* the renter of the seeded lease has paid 1200 twice: two rows, balance -1200
C8_Witness ==
    /\ AllIdle
    /\ TwoEqualPays(1)
    /\ payments[1].amount = Fin(1200) /\ payments[1].id # payments[2].id
    /\ leases[1].current_balance = Fin(-1200)

\* the type and the amount of each row
Kinds(rows) == [i \in DOMAIN rows |-> <<rows[i].type, rows[i].amount>>]

\* the commands of the scenario, in order
ScenarioEntries ==
    <<<<"payment", Fin(1200)>>, <<"charge", Fin(1200)>>, <<"payment", Fin(1300)>>>>

\* the seeded lease (rent 1200, due day 1, created with balance 1200) has
\* received the first k commands of the scenario, the charge after the first
\* payment
ScenarioLedger(k) ==
    LET rows == PaymentsOfLease(payments, 1)
    IN  /\ leases[1].monthly_rent = Fin(1200) /\ leases[1].due_day = Fin(1)
        /\ initialBalance[1] = Fin(1200)
        /\ Kinds(rows) = SubSeq(ScenarioEntries, 1, k)
        /\ k >= 2 => rows[2].paid_at > rows[1].paid_at

\* the first k commands of the scenario have been answered
ScenarioStage(k) == AllIdle /\ ScenarioLedger(k)

\* the two portals show the lease as paid
Paid(lease) ==
    /\ RenterPaidThisMonth(lease.current_balance, lease.monthly_rent)
    /\ LandlordPaidThisMonth(lease.current_balance, lease.monthly_rent)

\* C9: on the lease with rent 1200, due day 1 and balance 1200 at creation,
\* Pay(1200) leaves balance 0, entries [payment 1200] and paid; adjustBalance(+1200)
\* then leaves balance 1200, entries newest first [charge 1200, payment 1200]
\* and paid; Pay(1300) is then accepted though above the balance (neither of
\* its checks answers it) and leaves balance -100 and paid.
C9_Scenario ==
    [][/\ ScenarioStage(1)' =>
             /\ leases'[1].current_balance = Fin(0)
             /\ Kinds(listPaymentsForLease(payments', 1)) = <<<<"payment", Fin(1200)>>>>
             /\ Paid(leases'[1])
       /\ ScenarioStage(2)' =>
             /\ leases'[1].current_balance = Fin(1200)
             /\ Kinds(listPaymentsForLease(payments', 1))
                    = <<<<"charge", Fin(1200)>>, <<"payment", Fin(1200)>>>>
             /\ Paid(leases'[1])
       /\ ScenarioStage(3)' =>
             /\ leases'[1].current_balance = Fin(-100)
             /\ Paid(leases'[1])
       /\ \A c \in Conns :
             (/\ ScenarioLedger(2)
              /\ reqs[c].pc \in {"getUser", "findLease"}
              /\ reqs[c] = [PayRequest(DemoRenter, 1, JsNum(1300))
                                EXCEPT !.pc = reqs[c].pc, !.value = reqs[c].value]
              /\ reqs'[c] # reqs[c])
             => /\ reqs'[c].op = "pay" /\ reqs'[c].pc \in {"findLease", "insert"}
                /\ reqs'[c].value = Fin(1300)]_vars

\* the three commands of the scenario have been answered: the balance is -100
C9_Witness ==
    /\ ScenarioStage(3)
    /\ leases[1].current_balance = Fin(-100)
    /\ Len(payments) = 3

\* C10: no step changes or removes a stored entry; a step appends at most one,
\* with a new id, and only as the INSERT of a Pay or adjustBalance in flight on
\* the lease of the entry; a command answered 200 or 201 has appended exactly
\* one entry, and a command answered 400, 403 or 404 none.
C10_AppendOnly ==
    [][/\ Len(payments') >= Len(payments)
       /\ SubSeq(payments', 1, Len(payments)) = payments
       /\ Len(payments') <= Len(payments) + 1
       /\ Appended # <<>> =>
             /\ \A i \in DOMAIN payments : payments[i].id # Appended[1].id
             /\ \E c \in Conns :
                   /\ reqs[c].op \in {"pay", "adjust"} /\ reqs[c].pc = "insert"
                   /\ reqs[c].leaseId = Appended[1].lease_id
                   /\ reqs'[c].wrote = reqs[c].wrote + 1
                   /\ \A d \in Conns \ {c} : reqs'[d] = reqs[d]
       /\ \A c \in Conns :
             /\ reqs'[c].wrote > reqs[c].wrote => Appended # <<>>
             /\ (reqs'[c].op \in {"pay", "adjust"} /\ reqs'[c].pc = "respond") =>
                   /\ reqs'[c].status \in {200, 201} => reqs'[c].wrote = 1
                   /\ reqs'[c].status \in {400, 403, 404} =>
                         reqs'[c].wrote = 0 /\ (reqs'[c] # reqs[c] => payments' = payments)]_vars

\* a second entry has been appended after the first, and its Pay is answered 201
C10_Witness ==
    /\ Len(payments) = 2
    /\ payments[1].id # payments[2].id
    /\ \E c \in Conns : /\ reqs[c].op = "pay" /\ reqs[c].pc = "respond"
                          /\ reqs[c].status = 201 /\ reqs[c].wrote = 1

\* the rows of leases of a property that have is_active = 1
ActiveLeasesOf(propertyId) ==
    {i \in DOMAIN leases : leases[i].property_id = propertyId /\ leases[i].is_active = 1}

\* C11: in every reachable state each rental unit has at most one lease with
\* is_active = 1.  createLease inserts with is_active = 1 and neither looks for
\* nor ends the unit's active lease, so a second createLease on a unit fails this.
C11_OneActiveLeasePerUnit ==
    \A p \in DOMAIN rental_properties :
        Cardinality(ActiveLeasesOf(rental_properties[p].id)) <= 1

\* C12: a createLease whose monthlyRent is not a finite number above zero, or
\* whose dueDay is not an integer in 1..31, is answered 400 by the step that
\* checks the body, and one whose subject is not the landlord_id of an existing
\* unit is answered 403 by the step that checks the unit; neither step changes
\* leases.  A createLease comes to its INSERT only through the two checks, and a
\* row of leases is inserted only by a createLease that came to its INSERT.
C12_CreateLeaseValidation ==
    [][/\ \A c \in Conns :
            /\ Steps(c, "createLease", "getUser") =>
                  LET rent == Number(reqs[c].args[1].monthlyRent)
                      day == Number(reqs[c].args[1].dueDay)
                  IN  /\ reqs'[c].pc \in {"respond", "findProperty"}
                      /\ leases' = leases
                      /\ reqs'[c].pc = "respond" => reqs'[c].status \in {400, 403}
                      /\ (\/ ~(NumberIsFinite(rent) /\ Less(Zero, rent))
                          \/ ~(NumberIsInteger(day) /\ day.v >= 1 /\ day.v <= 31))
                         => reqs'[c].pc = "respond"
            /\ Steps(c, "createLease", "findProperty") =>
                  LET sub == reqs[c].args[1].sub
                      property == getRentalPropertyById(reqs[c].args[1].propertyId)
                  IN  /\ reqs'[c].pc \in {"respond", "insert"}
                      /\ leases' = leases
                      /\ reqs'[c].pc = "respond" => reqs'[c].status = 403
                      /\ (property = <<>> \/ property[1].landlord_id # sub)
                         => reqs'[c].pc = "respond"
            /\ (reqs'[c].op = "createLease" /\ reqs'[c].pc = "insert" /\ reqs'[c] # reqs[c])
                  => Steps(c, "createLease", "findProperty")
            /\ (reqs'[c].op = "createLease" /\ reqs'[c].pc = "findProperty"
                   /\ reqs'[c] # reqs[c])
                  => Steps(c, "createLease", "getUser")
       /\ Len(leases') >= Len(leases)
       /\ Len(leases') > Len(leases) =>
             \E c \in Conns : reqs[c].op = "createLease" /\ reqs[c].pc = "insert"]_vars

\* a createLease has been answered that the due day is not a day of the month
C12_Witness ==
    \E c \in Conns :
        /\ reqs[c].op = "createLease" /\ reqs[c].pc = "respond" /\ reqs[c].status = 400
        /\ reqs[c].error = "Due day should be a day of the month (1-31)."

\* C13: a Pay by a renter with a valid amount, or an adjustBalance by a
\* landlord with a finite delta, that names a leaseId with no lease is answered
\* 404 and changes neither payments nor leases.  Pay answers an unknown lease
\* with the same 403 as a lease of another renter, so this fails.
C13_UnknownLeaseNotFound ==
    [][\A c \in Conns :
          ((Steps(c, "pay", "findLease") \/ Steps(c, "adjust", "findLease"))
              /\ getLeaseById(reqs[c].leaseId) = <<>>)
          => /\ reqs'[c].pc = "respond" /\ reqs'[c].status = 404
             /\ payments' = payments /\ leases' = leases]_vars

\* C14: a Pay answered 201 returns its lease with a balance that accounts for
\* every returned entry, this payment included, and the entries of that lease,
\* all of them and no other, latest paid_at first, the entry this request
\* inserted at the head.  The list is ordered by paid_at alone, so an earlier
\* entry with the same paid_at, or a later entry of an overlapping request,
\* comes before the one just inserted, and this fails.
C14_PayResponse ==
    [][\A c \in Conns :
          (reqs[c].op = "pay" /\ reqs[c].pc = "listPayments"
              /\ reqs'[c].pc = "respond" /\ reqs'[c].status = 201)
          => LET lease == reqs'[c].lease
                 list == reqs'[c].payments
                 rows == PaymentsOfLease(payments', reqs'[c].leaseId)
             IN  /\ lease # <<>> /\ lease[1].id = reqs'[c].leaseId
                 /\ Len(list) = Len(rows)
                 /\ {list[i] : i \in DOMAIN list} = {rows[i] : i \in DOMAIN rows}
                 /\ \A i, j \in DOMAIN list : i < j => list[i].paid_at >= list[j].paid_at
                 /\ list # <<>>
                 /\ list[1].id = reqs'[c].inserted
                 /\ list[1].type = "payment" /\ list[1].amount = reqs'[c].value
                 /\ \A k \in DOMAIN leases' :
                       leases'[k].id = reqs'[c].leaseId =>
                           lease[1].current_balance
                               = Plus(initialBalance'[k],
                                      SeqSum([i \in DOMAIN list |-> SignedEffect(list[i])]))]_vars

\* the RenterPortal has loaded a lease and shows its paid status
RenterShows == renterPortal.lease # <<>>

\* C15: for a lease with monthly_rent > 0, the card of the LandlordPortal shows
\* "Paid" exactly when the balance of the lease it holds is at most the monthly
\* rent, the RenterPortal shows "Payment received" exactly when the balance of
\* the lease it holds is at most the monthly rent, and the two portals agree
\* whenever they hold the same row; for every pair of a balance and a monthly
\* rent above 0 the paid status of either portal is balance <= monthly rent
C15_PaidStatusAgrees ==
    /\ \A k \in DOMAIN Cards :
        Cards[k].lease # <<>> /\ Less(Zero, Cards[k].lease[1].monthly_rent) =>
            Cards[k].paidThisMonth
                = LessEq(Cards[k].lease[1].current_balance, Cards[k].lease[1].monthly_rent)
    /\ RenterShows /\ Less(Zero, renterPortal.lease[1].monthly_rent) =>
            RenterPaidThisMonth(RenterCurrentBalance, RenterMonthlyRent)
                = LessEq(renterPortal.lease[1].current_balance,
                         renterPortal.lease[1].monthly_rent)
    /\ \A k \in DOMAIN Cards :
        (RenterShows /\ Cards[k].lease = renterPortal.lease
            /\ Less(Zero, renterPortal.lease[1].monthly_rent)) =>
            Cards[k].paidThisMonth = RenterPaidThisMonth(RenterCurrentBalance, RenterMonthlyRent)
    /\ \A balance \in {Fin(-300), Fin(0), Fin(1), Fin(899), Fin(900), Fin(901), Fin(1199),
                       Fin(1200), Fin(1201), Fin(2400), Frac(1200)},
          monthlyRent \in {Fin(1), Fin(900), Fin(1200), Frac(1200)} :
        /\ LandlordPaidThisMonth(balance, monthlyRent) = LessEq(balance, monthlyRent)
        /\ RenterPaidThisMonth(balance, monthlyRent) = LessEq(balance, monthlyRent)

\* both portals hold the same lease, which owes exactly one monthly rent, and show it paid
C15_Witness ==
    /\ RenterShows
    /\ renterPortal.lease[1].monthly_rent = Fin(1200)
    /\ renterPortal.lease[1].current_balance = Fin(1200)
    /\ RenterPaidThisMonth(RenterCurrentBalance, RenterMonthlyRent)
    /\ \E k \in DOMAIN Cards : Cards[k].lease = renterPortal.lease /\ Cards[k].paidThisMonth

\* C16: in the RenterPortal the nudge "Balance overdue" is rendered exactly when
\* the paid status is false, for the balance and monthly rent the portal holds and
\* for every pair of a balance and a monthly rent (a rent of 0 included); with a
\* monthly rent above 0 it is rendered exactly when the balance exceeds the rent
C16_OverdueIsComplement ==
    /\ RenterBalanceOverdue(RenterCurrentBalance, RenterMonthlyRent)
            = ~RenterPaidThisMonth(RenterCurrentBalance, RenterMonthlyRent)
    /\ Less(Zero, RenterMonthlyRent) =>
            RenterBalanceOverdue(RenterCurrentBalance, RenterMonthlyRent)
                = Less(RenterMonthlyRent, RenterCurrentBalance)
    /\ \A balance \in {Fin(-300), Fin(-50), Fin(0), Fin(1), Fin(2), Fin(1199), Fin(1200),
                       Fin(1201), Fin(1500), Frac(1200)},
          monthlyRent \in {Zero, Fin(1), Fin(1200), Frac(1200)} :
        /\ RenterBalanceOverdue(balance, monthlyRent) = ~RenterPaidThisMonth(balance, monthlyRent)
        /\ Less(Zero, monthlyRent)
              => RenterBalanceOverdue(balance, monthlyRent) = Less(monthlyRent, balance)

\* the RenterPortal has loaded a lease that owes one unit more than a monthly rent
C16_Witness ==
    /\ RenterShows
    /\ renterPortal.lease[1].current_balance = Fin(1201)
    /\ renterPortal.lease[1].monthly_rent = Fin(1200)
    /\ RenterBalanceOverdue(RenterCurrentBalance, RenterMonthlyRent)

\* what the claim prescribes for an entry of a kind: label, note, prefix
Prescribed(kind) ==
    CASE kind = "charge" -> [label |-> "Rent issued", note |-> "Posted by landlord", prefix |-> "+"]
      [] kind = "credit" -> [label |-> "Credited on", note |-> "Posted by landlord", prefix |-> "-"]
      [] kind = "payment" -> [label |-> "Paid on", note |-> "Paid by you", prefix |-> "-"]

\* C17: every entry of the ledger the RenterPortal shows is rendered by the kind of
\* its payments row alone: "Rent issued" and '+' for a charge, "Credited on" and
\* '-' for a credit, "Paid on" and '-' for a payment, each followed by the absolute
\* amount, with the note "Posted by landlord" for charge and credit and "Paid by
\* you" for payment.  The entries of the demo ledger, which have no row, are
\* rendered as payments.
C17_LedgerRendering ==
    \A i \in DOMAIN renterPortal.paymentHistory :
        LET entry == renterPortal.paymentHistory[i]
            hasRow == entry.id \in DOMAIN payments
            kind == IF hasRow THEN payments[entry.id].type ELSE "payment"
            amount == IF hasRow THEN payments[entry.id].amount ELSE entry.amount
        IN  LedgerLine(entry) = [label |-> Prescribed(kind).label,
                                 note |-> Prescribed(kind).note,
                                 amount |-> Prescribed(kind).prefix \o formatMoney(Abs(amount))]

\* the ledger on the page holds a charge, a payment and a credit, and it is the
\* ledger that handleConfirmPayment has set from the answer of payLease: the
\* payments carry the label of the card
C17_Witness ==
    /\ \E i \in DOMAIN renterPortal.paymentHistory :
        /\ renterPortal.paymentHistory[i].id \in DOMAIN payments
        /\ renterPortal.paymentHistory[i].type = "payment"
        /\ renterPortal.paymentHistory[i].method # "Online payment"
    /\ \E i \in DOMAIN renterPortal.paymentHistory :
        renterPortal.paymentHistory[i].type = "charge"
    /\ \E i \in DOMAIN renterPortal.paymentHistory :
        renterPortal.paymentHistory[i].type = "payment"
    /\ \E i \in DOMAIN renterPortal.paymentHistory :
        renterPortal.paymentHistory[i].type = "credit"

\* the adjustBalance on connection c stands before one of its checks; it carries
\* the monthly_rent of its lease as delta and was sent by the landlord of the unit
MonthlyChargeSent(c) ==
    /\ reqs[c].op = "adjust" /\ reqs[c].pc \in {"getUser", "findLease", "findProperty"}
    /\ getLeaseById(reqs[c].leaseId) # <<>>
    /\ Number(reqs[c].args[1].balance) = getLeaseById(reqs[c].leaseId)[1].monthly_rent
    /\ requireRole("landlord", reqs[c].args[1].sub)
    /\ ~NotOwnUnit(reqs[c].args[1].sub, reqs[c].leaseId)

\* the adjustBalance on connection c has passed its checks; its delta is the
\* monthly_rent of its lease
MonthlyChargeAccepted(c) ==
    /\ reqs[c].op = "adjust"
    /\ reqs[c].pc \in {"update", "selectLease", "insert", "selectPayment"}
    /\ getLeaseById(reqs[c].leaseId) # <<>>
    /\ reqs[c].value = getLeaseById(reqs[c].leaseId)[1].monthly_rent

\* C18: the button "Add monthly charge" on a card sends an adjustBalance for the
\* lease of the card with the monthly_rent of that lease as delta.  When the
\* account of the portal is the landlord of the unit, none of the checks of the
\* request answers it; its UPDATE adds exactly the monthly_rent
\* to the current_balance of that lease and changes no other row; its INSERT
\* appends exactly one entry, of type charge, to that lease, with the monthly_rent
\* as amount.  The request is answered 200 after the INSERT, and in no other way
\* unless the storage rejects one of the two writes: then it is answered 500 by
\* the step of the rejected write, which writes nothing.
C18_MonthlyCharge ==
    [][\A c \in Conns :
          /\ reqs[c].pc = "idle" /\ reqs'[c].op = "adjust"
             => \A k \in 1..2 :
                    AddMonthlyCharge(c, k)
                    => /\ reqs'[c].leaseId = Cards[k].lease[1].id
                       /\ reqs'[c].args[1].sub = landlordPortal.user
                       /\ getLeaseById(reqs'[c].leaseId) # <<>>
                       /\ Number(reqs'[c].args[1].balance)
                              = getLeaseById(reqs'[c].leaseId)[1].monthly_rent
                       /\ Less(Zero, Number(reqs'[c].args[1].balance))
          /\ (MonthlyChargeAccepted(c) /\ reqs'[c].pc = "respond")
             => \/ Steps(c, "adjust", "selectPayment") /\ reqs'[c].status = 200
                \/ /\ Steps(c, "adjust", "update") \/ Steps(c, "adjust", "insert")
                   /\ Answered(c, 500, "Could not update lease balance.")
                   /\ UNCHANGED <<leases, payments>>
          /\ (MonthlyChargeSent(c)
                 /\ (Steps(c, "adjust", "getUser") \/ Steps(c, "adjust", "findLease")
                        \/ Steps(c, "adjust", "findProperty")))
             => /\ reqs'[c].pc # "respond"
                /\ reqs'[c].value = getLeaseById(reqs[c].leaseId)[1].monthly_rent
                /\ UNCHANGED <<leases, payments>>
          /\ (MonthlyChargeAccepted(c) /\ Steps(c, "adjust", "update")
                 /\ reqs'[c].pc # "respond")
             => /\ payments' = payments
                /\ DOMAIN leases' = DOMAIN leases
                /\ \A i \in DOMAIN leases :
                       leases'[i] = IF leases[i].id = reqs[c].leaseId
                                    THEN [leases[i] EXCEPT !.current_balance =
                                              Plus(leases[i].current_balance,
                                                   leases[i].monthly_rent)]
                                    ELSE leases[i]
          /\ (MonthlyChargeAccepted(c) /\ Steps(c, "adjust", "insert")
                 /\ reqs'[c].pc # "respond")
             => /\ leases' = leases
                /\ Len(payments') = Len(payments) + 1
                /\ SubSeq(payments', 1, Len(payments)) = payments
                /\ LET entry == payments'[Len(payments')]
                   IN  /\ entry.type = "charge"
                       /\ entry.lease_id = reqs[c].leaseId
                       /\ entry.amount = getLeaseById(reqs[c].leaseId)[1].monthly_rent]_vars

\* a monthly charge on the second lease, with its rent of 900, is answered 200: the
\* last entry is a charge of 900 on that lease and the balance is 900 above the
\* balance the lease had at first
C18_Witness ==
    \E c \in Conns :
        /\ reqs[c].op = "adjust" /\ reqs[c].pc = "respond" /\ reqs[c].status = 200
        /\ reqs[c].value = Fin(SecondRent)
        /\ leases[reqs[c].leaseId].monthly_rent = Fin(SecondRent)
        /\ payments # <<>>
        /\ payments[Len(payments)].type = "charge"
        /\ payments[Len(payments)].lease_id = reqs[c].leaseId
        /\ payments[Len(payments)].amount = Fin(SecondRent)
        /\ leases[reqs[c].leaseId].current_balance = Fin(2 * SecondRent)

\* GET /rentals/my-lease of a renter has its response
MyLeaseAnswered(c) ==
    /\ reqs[c].op = "myLease" /\ reqs[c].pc = "respond"
    /\ requireRole("renter", reqs[c].args[1].sub)

\* the entries a response lists, as a set
Listed(c) == {reqs[c].payments[i] : i \in DOMAIN reqs[c].payments}

\* C19: when GET /rentals/my-lease is answered to a renter with no other request in
\* flight, then for every lease of that renter and every charge or credit entry an
\* adjustBalance has logged for it, the response is that lease, with the balance
\* it has now, and its entry list holds that entry.  A renter with two leases is
\* shown the later one only, so an adjustment of the other lease never arrives.
C19_LandlordChangeReachesRenter ==
    \A c \in Conns :
        MyLeaseAnswered(c) =>
            \A i \in DOMAIN leases, j \in DOMAIN payments :
                (/\ leases[i].renter_id = reqs[c].args[1].sub
                 /\ payments[j].lease_id = leases[i].id
                 /\ payments[j].type \in {"charge", "credit"})
                => /\ reqs[c].status = 200
                   /\ reqs[c].lease = <<leases[i]>>
                   /\ payments[j] \in Listed(c)

\* the leases of a renter, by rowid: a higher rowid was created later
LeasesOf(sub) == {i \in DOMAIN leases : leases[i].renter_id = sub}

\* C20: GET /rentals/my-lease answers a renter without a lease 404, and a renter
\* with leases 200 with the lease of that renter that was created last and with
\* exactly the entries of that lease; the lease and the entries are never another
\* renter's.  Two leases of one renter created in the same millisecond are listed
\* in rowid order, so the one created first is returned.
C20_MostRecentLease ==
    \A c \in Conns :
        MyLeaseAnswered(c) =>
            LET mine == LeasesOf(reqs[c].args[1].sub)
            IN  IF mine = {}
                THEN reqs[c].status = 404 /\ reqs[c].lease = <<>> /\ reqs[c].payments = <<>>
                ELSE /\ reqs[c].status = 200
                     /\ reqs[c].lease = <<leases[CHOOSE i \in mine : \A k \in mine : k <= i]>>
                     /\ reqs[c].lease[1].renter_id = reqs[c].args[1].sub
                     /\ Listed(c) = {payments[j] : j \in {n \in DOMAIN payments :
                                         payments[n].lease_id = reqs[c].lease[1].id}}
                     /\ Len(reqs[c].payments) = Cardinality(Listed(c))

\* what the RenterPortal displays of the lease: the lease, the ledger, the balance
RenterDisplay == <<renterPortal.lease, renterPortal.paymentHistory, renterPortal.profile.balance>>

\* what the LandlordPortal displays: the units with their active leases, the leases
LandlordDisplay == <<landlordPortal.properties, landlordPortal.leases>>

\* C21: a command of a portal that fails leaves what the portal displays unchanged
\* and sets a text that is not empty.  RenterPortal: when the amount fails the
\* check of handleConfirmPayment (or nothing is sent for another reason), and when
\* payLease is answered with an error, lease, paymentHistory and profile.balance
\* keep their values and status is set.  LandlordPortal: when the input of
\* handleBalanceSave is not finite, and when updateLeaseBalance is answered with
\* an error, properties and leases keep their values and error is set.  A sign-in
\* that is rejected and a card that handlePaymentSave saves or refuses keep them
\* too, and set authError or error, status or paymentErrors.
C21_FailedCommandKeepsDisplay ==
    [][/\ (RenterSignInRejected \/ LandlordSignInRejected)
          => /\ RenterDisplay' = RenterDisplay
             /\ LandlordDisplay' = LandlordDisplay
             /\ renterPortal' # renterPortal => renterPortal'.authError # ""
             /\ landlordPortal' # landlordPortal => landlordPortal'.error # ""
       /\ \A card \in {"valid", "empty"} :
             handlePaymentSave(card)
             => /\ RenterDisplay' = RenterDisplay
                /\ LandlordDisplay' = LandlordDisplay
                /\ renterPortal'.status # "" \/ renterPortal'.paymentErrors # <<>>
       /\ \A c \in Conns :
            /\ (reqs' = reqs /\ renterPortal' # renterPortal)
               => \A payAmount \in PayTexts, method \in PayMethods :
                      handleConfirmPayment(c, payAmount, method)
                      => /\ RenterDisplay' = RenterDisplay
                         /\ renterPortal'.status # ""
                         /\ LandlordDisplay' = LandlordDisplay
            /\ (c \in RenterAwaits /\ reqs[c].pc = "respond" /\ reqs[c].status # 201
                   /\ RenterPortalPaid(c))
               => /\ RenterDisplay' = RenterDisplay
                  /\ renterPortal'.status # ""
                  /\ LandlordDisplay' = LandlordDisplay
            /\ (reqs' = reqs /\ landlordPortal' # landlordPortal)
               => \A k \in 1..2, raw \in BalanceTexts :
                      handleBalanceSave(c, k, raw)
                      => /\ LandlordDisplay' = LandlordDisplay
                         /\ landlordPortal'.error # ""
                         /\ RenterDisplay' = RenterDisplay
            /\ (c \in landlordPortal.saves /\ reqs[c].pc = "respond" /\ reqs[c].status # 200
                   /\ LandlordPortalSaved(c))
               => /\ LandlordDisplay' = LandlordDisplay
                  /\ landlordPortal'.error # ""
                  /\ RenterDisplay' = RenterDisplay]_vars

\* both portals have loaded the lease and both have had a command fail at the
\* server: the RenterPortal shows the error of payLease, the LandlordPortal the
\* error of updateLeaseBalance, and both still show what they had loaded
C21_Witness ==
    /\ renterPortal.lease # <<>>
    /\ renterPortal.status = "Could not record payment."
    /\ landlordPortal.properties # <<>>
    /\ landlordPortal.error = "Could not update lease balance."


----------------------------------------------------------------------------
(* The demo bootstrap *)

\* the rows of a table that satisfy a condition
UsersOfRole(role) == {id \in DOMAIN users : users[id] = role}
ActiveLeases == {i \in DOMAIN leases : leases[i].is_active = 1}

\* what the first run leaves: one landlord, one renter, one unit and one
\* active lease with one month due
Seeded ==
    /\ Cardinality(UsersOfRole("landlord")) = 1
    /\ Cardinality(UsersOfRole("renter")) = 1
    /\ Len(rental_properties) = 1
    /\ Len(leases) = 1
    /\ ActiveLeases = {1}
    /\ leases[1].monthly_rent = Fin(1200)
    /\ leases[1].current_balance = Fin(1200)

\* a step of a run of ensureDemoRentalData
EnsureStep(c) ==
    \/ EnsureUser(c)
    \/ EnsureUserHash(c)
    \/ EnsureUserCreate(c)
    \/ EnsureReadUser(c)
    \/ EnsureProperty(c)
    \/ EnsurePropertyInsert(c)
    \/ EnsurePropertySelect(c)
    \/ EnsureLease(c)
    \/ EnsureLeaseInsert(c)
    \/ EnsureLeaseSelect(c)

\* C22: ensureDemoRentalData on an empty database leaves exactly one landlord
\* user, one renter user, one rental unit and one active lease with
\* monthly_rent 1200 and current_balance 1200; a later run creates no user, no
\* unit and no lease and changes no balance and no entry
C22_BootstrapIdempotent ==
    [][\A c \in Conns :
          /\ (reqs[c].op = "ensureDemoRentalData" /\ leases = <<>>
              /\ EnsureLeaseInsert(c)) => Seeded'
          /\ (reqs[c].op = "ensureDemoRentalData" /\ leases # <<>> /\ EnsureStep(c))
                => UNCHANGED <<users, rental_properties, leases, payments>>]_vars

----------------------------------------------------------------------------
(* Rejections and writes *)

\* the statuses of a rejection: validation, role or ownership, not found
Rejections == {400, 403, 404}

\* the steps of a request that come before its first INSERT or UPDATE
Checks == {"getUser", "findLease", "findProperty"}

\* C23: a Pay, adjustBalance or createLease request that is rejected is rejected
\* by one of its checks, before any INSERT or UPDATE of that request: it has
\* written nothing, no step of it has changed leases or payments, and the step
\* that rejects it leaves leases and payments as they are
C23_RejectedBeforeWrite ==
    [][\A c \in Conns :
          /\ (/\ reqs[c].pc # "respond"
              /\ reqs'[c].pc = "respond"
              /\ reqs'[c].op \in {"pay", "adjust", "createLease"}
              /\ reqs'[c].status \in Rejections)
             => /\ reqs[c].pc \in Checks
                /\ reqs'[c].wrote = 0
                /\ UNCHANGED <<leases, payments>>
          /\ (reqs[c].op \in {"pay", "adjust", "createLease"} /\ reqs[c].pc \in Checks
                 /\ reqs'[c] # reqs[c])
             => /\ reqs[c].wrote = 0 /\ reqs'[c].wrote = 0
                /\ reqs'[c].pc \in Checks \cup {"respond", "insert", "update"}
                /\ UNCHANGED <<leases, payments>>
          /\ (reqs'[c].op \in {"pay", "adjust", "createLease"} /\ reqs'[c].pc \in Checks
                 /\ reqs'[c] # reqs[c])
             => reqs[c].pc \in Checks \cup {"idle"}]_vars

\* a request is rejected when earlier requests have written
C23_Witness ==
    /\ payments # <<>>
    /\ Len(leases) > 1
    /\ \E c \in Conns : /\ reqs[c].pc = "respond"
                        /\ reqs[c].op \in {"pay", "adjust", "createLease"}
                        /\ reqs[c].status \in Rejections

----------------------------------------------------------------------------
(* Roles *)

\* the account exists and its stored role is not the role the route requires
RoleDiffers(sub, neededRole) == sub \in DOMAIN users /\ users[sub] # neededRole

\* the request on connection c has been answered 403 by requireRole
ForbiddenByRole(c, neededRole) ==
    /\ reqs'[c].pc = "respond"
    /\ reqs'[c].status = 403
    /\ reqs'[c].error = "Only " \o neededRole \o "s can do this action."
    /\ UNCHANGED <<users, rental_properties, leases, payments>>

\* C24: a Pay request of an account whose stored role is not renter, and an
\* adjustBalance or createLease request of an account whose stored role is not
\* landlord, is answered 403 by the role check, its first step, and changes
\* nothing, whatever the amount and the lease are, also when the lease names
\* the account as its renter
C24_WrongRoleForbidden ==
    [][\A c \in Conns :
          /\ (Steps(c, "pay", "getUser") /\ RoleDiffers(reqs[c].args[1].sub, "renter"))
             => ForbiddenByRole(c, "renter")
          /\ (Steps(c, "adjust", "getUser") /\ RoleDiffers(reqs[c].args[1].sub, "landlord"))
             => ForbiddenByRole(c, "landlord")
          /\ (Steps(c, "createLease", "getUser")
                 /\ RoleDiffers(reqs[c].args[1].sub, "landlord"))
             => ForbiddenByRole(c, "landlord")
          /\ (reqs[c].pc = "idle" /\ reqs'[c].op \in {"pay", "adjust", "createLease"})
             => reqs'[c].pc = "getUser"
                   /\ UNCHANGED <<users, rental_properties, leases, payments>>]_vars

\* a lease names a landlord as its renter, and a request has been answered 403
\* by the role check
C24_Witness ==
    /\ \E i \in DOMAIN leases : RoleDiffers(leases[i].renter_id, "renter")
    /\ \E c \in Conns : /\ reqs[c].pc = "respond" /\ reqs[c].op = "pay" /\ reqs[c].status = 403
                        /\ reqs[c].error = "Only renters can do this action."
                        /\ reqs[c].leaseId \in {leases[i].id : i \in DOMAIN leases}
                        /\ RoleDiffers(getLeaseById(reqs[c].leaseId)[1].renter_id, "renter")

----------------------------------------------------------------------------
(* The order of the checks *)

\* C25: a renter's Pay with an amount that is not a finite number above zero, on
\* a lease that is unknown or names another renter, is answered with the amount
\* error, by the step before the lease is looked up; a landlord's adjustBalance
\* is answered 400 when the amount is not finite, else it looks up the lease
\* and is answered 404 when the lease is unknown, else it looks up the unit and
\* is answered 403 when the unit is not the landlord's, else it goes on to write
C25_OrderOfChecks ==
    [][\A c \in Conns :
          /\ (Steps(c, "pay", "getUser") /\ requireRole("renter", reqs[c].args[1].sub))
             => LET value == Number(reqs[c].args[1].amount)
                IN  (/\ ~(NumberIsFinite(value) /\ Less(Zero, value))
                     /\ NotOwnLease(reqs[c].args[1].sub, reqs[c].leaseId))
                    => Answered(c, 400, "Payment amount must be positive.")
          /\ (Steps(c, "adjust", "getUser") /\ requireRole("landlord", reqs[c].args[1].sub))
             => IF ~NumberIsFinite(Number(reqs[c].args[1].balance))
                THEN Answered(c, 400, "Balance must be a number.")
                ELSE reqs'[c].pc = "findLease"
          /\ Steps(c, "adjust", "findLease")
             => IF getLeaseById(reqs[c].leaseId) = <<>>
                THEN Answered(c, 404, "Lease not found.")
                ELSE reqs'[c].pc = "findProperty"
          /\ Steps(c, "adjust", "findProperty")
             => IF NotOwnUnit(reqs[c].args[1].sub, reqs[c].leaseId)
                THEN Answered(c, 403, "You can only update your own leases.")
                ELSE reqs'[c].pc = "update"]_vars

\* an invalid amount on an unknown lease has been answered 400 with the amount
\* error, after an adjustment was logged
C25_Witness ==
    /\ payments # <<>>
    /\ \E c \in Conns :
          /\ reqs[c].pc = "respond" /\ reqs[c].op = "pay" /\ reqs[c].status = 400
          /\ reqs[c].error = "Payment amount must be positive."
          /\ getLeaseById(reqs[c].leaseId) = <<>>

----------------------------------------------------------------------------
(* The totals of the landlord portal *)

\* C26: the number on the tile "Paid this month" is the number of cards that
\* show "Paid"
C26_PaidTileCountsPaidCards ==
    stats.paid = Cardinality({k \in DOMAIN Cards : Cards[k].paidThisMonth})

----------------------------------------------------------------------------
(* The balance and the entry log *)

\* the sum of the amounts of the entries of a lease that have one of the types
SumOfType(leaseId, types) ==
    LET rows == SelectSeq(PaymentsOfLease(payments, leaseId), LAMBDA p : p.type \in types)
    IN  SeqSum([i \in DOMAIN rows |-> rows[i].amount])

\* C27: when no request is in progress and the storage has rejected no second
\* write, every lease's current_balance is the balance it was created with,
\* plus the amounts of its charge and credit entries, minus the amounts of its
\* payment entries
C27_BalanceReconstructible ==
    (AllIdle /\ torn = {}) =>
        \A i \in DOMAIN leases :
            leases[i].current_balance
                = Minus(Plus(initialBalance[i], SumOfType(leases[i].id, {"charge", "credit"})),
                        SumOfType(leases[i].id, {"payment"}))

\* the seeded lease has a charge and a payment behind it and no request is in progress
C27_Witness ==
    /\ AllIdle /\ torn = {}
    /\ Less(Zero, SumOfType(1, {"charge", "credit"}))
    /\ Less(Zero, SumOfType(1, {"payment"}))
    /\ leases[1].current_balance # initialBalance[1]

----------------------------------------------------------------------------
(* Concurrent requests on one lease *)

\* the step is the UPDATE of the request on connection c, applied to the balance
\* the lease has now
AppliesUpdate(c, i) ==
    /\ reqs[c].pc = "update" /\ reqs[c].leaseId = leases[i].id
    /\ reqs'[c].pc # "update"
    /\ leases'[i].current_balance
          = IF reqs[c].op = "pay" THEN Minus(leases[i].current_balance, reqs[c].value)
            ELSE Plus(leases[i].current_balance, reqs[c].value)

\* the step is the INSERT of the request on connection c: its one entry
AppendsEntry(c) ==
    /\ reqs[c].pc = "insert" /\ reqs[c].wrote = 0
    /\ payments' = Append(payments, payments'[Len(payments')])
    /\ payments'[Len(payments')].lease_id = reqs[c].leaseId
    /\ payments'[Len(payments')].amount = reqs[c].value
    /\ reqs'[c].wrote = 1

\* C28: with Pay and adjustBalance requests overlapping on a lease, every change
\* of a balance is the UPDATE of one request applied to the balance of that
\* moment, every change of the ledger is the one INSERT of one request, and an
\* accepted request is answered after exactly one INSERT; so when all requests
\* have been answered and no second write was rejected the balance is the
\* starting balance plus the deltas minus the payments, one entry per request
C28_NoLostUpdate ==
    /\ [][/\ \A i \in DOMAIN leases :
                leases'[i].current_balance # leases[i].current_balance
                    => \E c \in Conns : AppliesUpdate(c, i)
          /\ payments' # payments => \E c \in Conns : AppendsEntry(c)
          /\ \A c \in Conns :
                (reqs[c].pc # "respond" /\ reqs'[c].pc = "respond" /\ reqs'[c].status \in {200, 201})
                    => reqs'[c].wrote = 1]_vars
    /\ [](AllIdle /\ torn = {} =>
            \A i \in DOMAIN leases :
                leases[i].current_balance
                    = Plus(initialBalance[i], LedgerEffects(leases[i].id)))

\* a Pay and an adjustBalance on the seeded lease stand between their two
\* writes at the same time: the entry of the payment is logged and not yet
\* subtracted, the delta is added and not yet logged
C28_Witness ==
    /\ reqs[1].op = "pay" /\ reqs[1].pc = "update" /\ reqs[1].leaseId = 1
    /\ reqs[2].op = "adjust" /\ reqs[2].pc = "insert" /\ reqs[2].leaseId = 1
    /\ reqs[2].value # Zero
    /\ leases[1].current_balance = Plus(initialBalance[1], reqs[2].value)
    /\ Len(payments) = 1

----------------------------------------------------------------------------
(* What a response returns *)

\* C29: the payment in the response of a Pay is the row that request inserted,
\* of type payment and with the amount sent, and the lease in the response of
\* an adjustBalance has the balance its UPDATE found plus the delta, however
\* the requests on the lease interleave
C29_ResponseIsOwn ==
    [][\A c \in Conns :
          /\ (reqs[c].pc # "respond" /\ reqs'[c].pc = "respond"
              /\ reqs'[c].op = "pay" /\ reqs'[c].status = 201)
             => /\ reqs'[c].payment # <<>>
                /\ reqs'[c].payment[1].id = reqs'[c].inserted
                /\ reqs'[c].payment[1].type = "payment"
                /\ reqs'[c].payment[1].amount = reqs'[c].value
          /\ (reqs[c].pc # "respond" /\ reqs'[c].pc = "respond"
              /\ reqs'[c].op = "adjust" /\ reqs'[c].status = 200)
             => /\ reqs'[c].lease # <<>>
                /\ reqs'[c].lease[1].current_balance
                       = Plus(reqs'[c].before, reqs'[c].value)]_vars

----------------------------------------------------------------------------
(* What a command leaves alone *)

\* a lease row without its balance
Terms(lease) ==
    [id |-> lease.id, property_id |-> lease.property_id, renter_id |-> lease.renter_id,
     monthly_rent |-> lease.monthly_rent, due_day |-> lease.due_day,
     is_active |-> lease.is_active, created_at |-> lease.created_at]

\* the step leaves every lease but leaseId as it is, leaves the terms of
\* leaseId as they are, and appends at most one entry, of leaseId
TouchesOnly(leaseId) ==
    /\ DOMAIN leases' = DOMAIN leases
    /\ \A i \in DOMAIN leases :
          /\ leases[i].id # leaseId => leases'[i] = leases[i]
          /\ Terms(leases'[i]) = Terms(leases[i])
    /\ \/ payments' = payments
       \/ /\ Len(payments') = Len(payments) + 1
          /\ SubSeq(payments', 1, Len(payments)) = payments
          /\ payments'[Len(payments')].lease_id = leaseId

\* C30: every step of a Pay or an adjustBalance on lease L changes of the
\* leases only L's current_balance and appends only entries of L; all other
\* leases and entries and the other columns of L stay as they are, and no step
\* of any request removes a lease
C30_OnlyItsLease ==
    [][/\ \A c \in Conns :
             (reqs'[c] # reqs[c] /\ reqs'[c].op \in {"pay", "adjust"})
                 => TouchesOnly(reqs'[c].leaseId)
       /\ \A i \in DOMAIN leases :
             i \in DOMAIN leases' /\ leases'[i].id = leases[i].id]_vars

\* of two leases one has been paid and adjusted, and the other is as created
C30_Witness ==
    /\ Len(leases) = 2
    /\ \E i, j \in DOMAIN leases :
          /\ i # j
          /\ \E k \in DOMAIN payments :
                payments[k].lease_id = leases[i].id /\ payments[k].type = "payment"
          /\ leases[i].current_balance # initialBalance[i]
          /\ PaymentsOfLease(payments, leases[j].id) = <<>>
          /\ leases[j].current_balance = initialBalance[j]
          /\ initialBalance[j] # Zero
====
